---------------------------- MODULE Spec2Model ----------------------------
(***************************************************************************)
(* A model of NeST's experiment driver (nest/experiment/run_exp.py) and of *)
(* the clean-up module (nest/clean_up.py).                                  *)
(*                                                                         *)
(* run_experiment is modelled statement by statement: the dependency       *)
(* check, one step per iteration of the loop over exp.flows, one per       *)
(* iteration of the loop over exp.coap_flows, the three set-up calls for   *)
(* the ss, tc and ping runners, and then the try block: run_workers for    *)
(* the flow workers, run_workers for the parsers, dump_json_ouputs, the    *)
(* optional run_workers for the plotters, the KeyboardInterrupt handler    *)
(* and the finally clause that calls cleanup().                            *)
(*                                                                         *)
(* The Runner classes and the Results classes are collaborators of        *)
(* run_exp.py; a Runner is the record of the arguments its constructor is  *)
(* called with.                                                            *)
(*                                                                         *)
(* The main script around run_experiment is modelled too: the Nodes it     *)
(* creates, delete_namespaces (called by the script and at interpreter     *)
(* exit), the with blocks of Network (nest/topology/network.py), and the   *)
(* Interface, connect, set_attributes and address calls of                 *)
(* nest/tests/test_topology.py.  The child processes of the runners        *)
(* (parser/netperf.py, ss_parse.py) are modelled step by step: the sleep   *)
(* until the start offset, the tool, and add_result on the Result Store.   *)
(* The loops of clean_up.py leave the engine calls they make in            *)
(* engine_log, and Network.add_interface is a call of the script.          *)
(* Names are                                                               *)
(* strings, so that the limit on their length is checked on the names the  *)
(* tests use.  TopologyMap, Node, Interface, connect and the engine follow *)
(* their documented contracts and the calls the tests make, with random    *)
(* names switched off (the identifier of an entity is its name).           *)
(***************************************************************************)
EXTENDS Integers, Sequences, FiniteSets, TLC

VARIABLES
    \* ---- the experiment handed to run_experiment, and the configuration
    flows,              \* exp.flows
    coap_flows,         \* exp.coap_flows
    qdisc_stats,        \* exp.qdisc_stats
    config,             \* nest.config values read by run_experiment
    \* ---- locals of run_experiment
    pc,                 \* position in run_experiment
    idx,                \* position in the loop being executed
    dependencies,       \* get_dependency_status(tools)
    destination_nodes,  \* per tool: destinations whose server was considered
    ss_schedules,       \* (src, dst, addr) -> (start, stop)
    ping_schedules,     \* (src, dst, addr) -> (start, stop)
    exp_end_t,          \* overall stop time
    ss_required,
    ss_filters,
    exp_runners,        \* per tool: the Runner objects, in creation order
    \* ---- effects outside run_experiment
    server_starts,      \* the server-start calls issued, in order
    workers,            \* per phase: the multiprocessing.Process objects
    results,            \* per tool: the Result Store
    json_files,         \* per tool: the JSON document written, if any
    exc,                \* the exception in flight in run_experiment
    exc_at,             \* the statement of the try block that raised it
    log,                \* messages logged by run_experiment
    cleanup_calls,      \* number of cleanup() calls
    killed,             \* namespaces engine.kill_all_processes was called on
    kernel_ns,          \* namespaces that exist in the kernel
    exited,             \* the interpreter has exited (atexit ran)
    \* ---- the topology the main script builds (nest.topology, TopologyMap)
    topology_map,       \* TopologyMap: namespaces, interfaces, networks
    kernel_if,          \* interfaces that exist in the kernel
    current_network,    \* Network.current_network
    scopes,             \* the Networks whose with block the script is inside
    err,                \* the exception propagating in the main script
    delete_row,         \* delete_namespaces calls since a namespace was made
    \* ---- the child processes of the runners (parser/netperf.py, ss_parse.py)
    procs,              \* per child process: what it runs, and where it is
    store,              \* per tool: the Result Store the parsers add to
    lock,               \* the lock handed to parse_ss: its holder, if any
    \* ---- the calls nest/clean_up.py makes on the engine
    engine_log          \* the engine calls of the latest clean_up function

sched_vars == <<pc, idx, dependencies, destination_nodes, ss_schedules,
                ping_schedules, exp_end_t, ss_required, ss_filters,
                exp_runners, server_starts>>
input_vars == <<flows, coap_flows, qdisc_stats>>
run_vars == <<workers, results, json_files, exc, exc_at, log,
              cleanup_calls, killed, kernel_ns, exited>>
topo_vars == <<topology_map, kernel_if, current_network, scopes, err,
               delete_row>>
proc_vars == <<procs, store, lock>>
vars == <<flows, coap_flows, qdisc_stats, config, pc, idx, dependencies,
          destination_nodes, ss_schedules, ping_schedules, exp_end_t,
          ss_required, ss_filters, exp_runners, server_starts, workers,
          results, json_files, exc, exc_at, log, cleanup_calls, killed,
          kernel_ns, exited, topology_map, kernel_if, current_network,
          scopes, err, delete_row, procs, store, lock, engine_log>>

-----------------------------------------------------------------------------
(* Bounds of the model.                                                    *)

\* longest exp.flows of the scheduling specifications
MaxFlows == 3
\* longest exp.coap_flows of the scheduling specifications
MaxCoapFlows == 2
\* most delete_namespaces calls the main script makes in a row
MaxDeleteCalls == 3
\* most Network objects the main script constructs
MaxNetworks == 2
\* most Node objects the main script constructs before a tear-down
MaxNodes == 3
\* most links the main script makes with connect
MaxLinks == 2
\* most addresses an interface has at a time
MaxAddresses == 3
\* most warnings the main script has logged
MaxWarnings == 2
\* most child processes of runners alive together
MaxProcs == 2
\* deepest nesting of "with network:" blocks
MaxScopes == 2
\* most worker processes that end with a nonzero exit code in one run
MaxCrashes == 1
\* largest number of parallel streams of a flow
MaxParallel == 2
\* most add_interface calls on one Network
MaxMembers == 2

-----------------------------------------------------------------------------
(* Python floats as run_experiment uses them: a number, float("inf") or    *)
(* float("-inf").                                                          *)

Fin(n) == [inf |-> 0, v |-> n]
PInf == [inf |-> 1, v |-> 0]
NInf == [inf |-> -1, v |-> 0]
NaN == [inf |-> 2, v |-> 0]

IsFinite(a) == a.inf = 0

ExtLeq(a, b) == IF a.inf # b.inf THEN a.inf < b.inf
                ELSE (a.inf # 0 \/ a.v <= b.v)

\* Python's min(a, b) and max(a, b)
PyMin(a, b) == IF ExtLeq(a, b) THEN a ELSE b
\* the second argument is taken, whatever the first is
PyMaxLast(a, b) == b
PyMax(a, b) == IF ExtLeq(b, a) THEN a ELSE b

\* Python's a - b
PySub(a, b) ==
    CASE a.inf = 0 /\ b.inf = 0 -> Fin(a.v - b.v)
      [] a.inf = 0 /\ b.inf = 1 -> NInf
      [] a.inf = 0 /\ b.inf = -1 -> PInf
      [] a.inf = 1 /\ b.inf \in {0, -1} -> PInf
      [] a.inf = -1 /\ b.inf \in {0, 1} -> NInf
      [] OTHER -> NaN

-----------------------------------------------------------------------------
(* The tools, in the order of the namedtuple of run_experiment.            *)

Tools == <<"netperf", "ss", "tc", "iperf3", "ping", "coap">>
ToolSet == {Tools[i] : i \in 1..Len(Tools)}
ServerTools == {"netperf", "iperf3", "coap"}

\* TopologyMap.get_namespaces(): the registered namespaces, in the order
\* of their registration
get_namespaces == topology_map.namespaces

\* the ids of the namespaces registered in the TopologyMap
Namespaces == {get_namespaces[i].id : i \in DOMAIN get_namespaces}

\* flow._get_props()[0:3]
Key(f) == <<f.src_ns, f.dst_ns, f.dst_addr>>

\* ss_schedules / ping_schedules are defaultdicts whose default is
\* (float("inf"), float("-inf")); a dict keeps its keys in insertion order
\* a missing key reads as the window (0, 0)
DefaultWindowZero == <<Fin(0), Fin(0)>>
DefaultWindow == <<PInf, NInf>>
Has(sched, key) == \E i \in 1..Len(sched) : sched[i].key = key
Lookup(sched, key) ==
    IF Has(sched, key)
    THEN sched[CHOOSE i \in 1..Len(sched) : sched[i].key = key].win
    ELSE DefaultWindow
\* the window is appended as a new entry even when the key has one
StoreAppended(sched, key, w) == Append(sched, [key |-> key, win |-> w])
Store(sched, key, w) ==
    IF Has(sched, key)
    THEN [i \in 1..Len(sched) |->
            IF sched[i].key = key THEN [key |-> key, win |-> w] ELSE sched[i]]
    ELSE Append(sched, [key |-> key, win |-> w])

\* the ss filters added at run_exp.py lines 114 and 134
NetperfFilter == "sport != 12865 and dport != 12865"
Iperf3Filter == "sport != 5201 and dport != 5201"

\* one copy of x, whatever n is
RepeatOnce(x, n) == <<x>>

\* n copies of x, as the loop "for _ in range(n_flows)" appends them
Repeat(x, n) == [i \in 1..n |-> x]

\* the sequences that list every element of the set S once
Orders(S) == {q \in [1..Cardinality(S) -> S] : {q[i] : i \in DOMAIN q} = S}

-----------------------------------------------------------------------------
(* The helpers of run_experiment.                                          *)

\* the stop time of the latest contribution replaces the stored one
MergeWindowLastStop(w, start_t, stop_t) == <<PyMin(w[1], Fin(start_t)), Fin(stop_t)>>

\* the window a flow contributes to, as run_experiment lines 101-105 merge it
MergeWindow(w, start_t, stop_t) ==
    <<PyMin(w[1], Fin(start_t)), PyMax(w[2], Fin(stop_t))>>

\* the contribution overwrites the stored window instead of widening it
get_start_stop_time_overwrite(src_ns, dst_ns, dst_addr, start_t, stop_t, schedules) ==
    Store(schedules, <<src_ns, dst_ns, dst_addr>>, <<Fin(start_t), Fin(stop_t)>>)

get_start_stop_time_for_ss(src_ns, dst_ns, dst_addr, start_t, stop_t, schedules) ==
    LET key == <<src_ns, dst_ns, dst_addr>> IN
    IF ~Has(schedules, key)
    THEN Store(schedules, key, <<Fin(start_t), Fin(stop_t)>>)
    ELSE LET w == Lookup(schedules, key) IN
         Store(schedules, key, <<PyMin(w[1], Fin(start_t)), PyMax(w[2], Fin(stop_t))>>)

\* run_netserver(dst_ns) / run_server(dst_ns), lines 398, 468 and 642: the
\* call, and how many Runner objects the calling function has built for its
\* flow when it makes the call
run_server(dst_ns, runners) == [ns |-> dst_ns, runners |-> Len(runners)]

\* a server is started for every flow, whatever was started before
NeedsServerAlways(dst_ns, nodes) == TRUE

\* lines 397, 467 and 624: "if dst_ns not in destination_nodes"
NeedsServer(dst_ns, nodes) == dst_ns \notin nodes

NetperfRunner(src_ns, dst_addr, start_t, run_time, dst_ns) ==
    [tool |-> "netperf", ns |-> src_ns, dst_addr |-> dst_addr,
     start |-> Fin(start_t), run_time |-> Fin(run_time), dst_ns |-> dst_ns,
     n |-> 1, filter |-> <<>>]

Iperf3Runner(src_ns, dst_addr, n_flows, start_t, run_time, dst_ns) ==
    [tool |-> "iperf3", ns |-> src_ns, dst_addr |-> dst_addr,
     start |-> Fin(start_t), run_time |-> Fin(run_time), dst_ns |-> dst_ns,
     n |-> n_flows, filter |-> <<>>]

SsRunner(src_ns, dst_addr, start, run_time, dst_ns, ss_filter) ==
    [tool |-> "ss", ns |-> src_ns, dst_addr |-> dst_addr,
     start |-> start, run_time |-> run_time, dst_ns |-> dst_ns,
     n |-> 1, filter |-> ss_filter]

PingRunner(src_ns, dst_addr, start, run_time, dst_ns) ==
    [tool |-> "ping", ns |-> src_ns, dst_addr |-> dst_addr,
     start |-> start, run_time |-> run_time, dst_ns |-> dst_ns,
     n |-> 1, filter |-> <<>>]

TcRunner(ns_id, int_id, exp_end) ==
    [tool |-> "tc", ns |-> ns_id, dst_addr |-> int_id,
     start |-> Fin(0), run_time |-> exp_end, dst_ns |-> ns_id,
     n |-> 1, filter |-> <<>>]

CoAPRunner(src_ns, dst_addr) ==
    [tool |-> "coap", ns |-> src_ns, dst_addr |-> dst_addr,
     start |-> Fin(0), run_time |-> Fin(0), dst_ns |-> src_ns,
     n |-> 1, filter |-> <<>>]

\* netserver is started after the netperf runners of the flow were built
setup_tcp_flows_server_last(dependency, flow, schedules, nodes) ==
    IF ~dependency
    THEN [runners |-> <<>>, ss_schedules |-> schedules, servers |-> <<>>]
    ELSE LET netperf_runners ==
                 Repeat(NetperfRunner(flow.src_ns, flow.dst_addr, flow.start_t,
                                      flow.stop_t - flow.start_t, flow.dst_ns),
                        flow.n_flows)
         IN [runners |-> netperf_runners,
             ss_schedules |-> get_start_stop_time_for_ss(
                                  flow.src_ns, flow.dst_ns, flow.dst_addr,
                                  flow.start_t, flow.stop_t, schedules),
             servers |-> IF NeedsServer(flow.dst_ns, nodes)
                         THEN <<run_server(flow.dst_ns, netperf_runners)>>
                         ELSE <<>>]

\* returns the runners, the updated ss_schedules and the servers started
setup_tcp_flows(dependency, flow, schedules, nodes) ==
    IF ~dependency
    THEN [runners |-> <<>>, ss_schedules |-> schedules, servers |-> <<>>]
    ELSE [runners |-> Repeat(NetperfRunner(flow.src_ns, flow.dst_addr, flow.start_t,
                                           flow.stop_t - flow.start_t, flow.dst_ns),
                             flow.n_flows),
          ss_schedules |-> get_start_stop_time_for_ss(
                               flow.src_ns, flow.dst_ns, flow.dst_addr,
                               flow.start_t, flow.stop_t, schedules),
          servers |-> IF NeedsServer(flow.dst_ns, nodes)
                      THEN <<run_server(flow.dst_ns, <<>>)>> ELSE <<>>]

\* the iperf3 runner is built without looking at the dependency
setup_udp_flows_unchecked(dependency, flow, nodes) ==
    [runners |-> <<Iperf3Runner(flow.src_ns, flow.dst_addr, flow.n_flows,
                                flow.start_t, flow.stop_t - flow.start_t,
                                flow.dst_ns)>>,
     servers |-> IF NeedsServer(flow.dst_ns, nodes)
                 THEN <<run_server(flow.dst_ns, <<>>)>> ELSE <<>>]

setup_udp_flows(dependency, flow, nodes) ==
    IF ~dependency
    THEN [runners |-> <<>>, servers |-> <<>>]
    ELSE [runners |-> <<Iperf3Runner(flow.src_ns, flow.dst_addr, flow.n_flows,
                                     flow.start_t, flow.stop_t - flow.start_t,
                                     flow.dst_ns)>>,
          servers |-> IF NeedsServer(flow.dst_ns, nodes)
                      THEN <<run_server(flow.dst_ns, <<>>)>> ELSE <<>>]

\* the CoAP runner is built without looking at the dependency
setup_coap_runners_unchecked(dependency, flow, nodes) ==
    [runners |-> <<CoAPRunner(flow.src_ns, flow.dst_addr)>>,
     servers |-> IF NeedsServer(flow.dst_ns, nodes)
                 THEN <<run_server(flow.dst_ns, <<>>)>> ELSE <<>>]
setup_coap_runners(dependency, flow, nodes) ==
    IF dependency
    THEN [runners |-> <<CoAPRunner(flow.src_ns, flow.dst_addr)>>,
          servers |-> IF NeedsServer(flow.dst_ns, nodes)
                      THEN <<run_server(flow.dst_ns, <<>>)>> ELSE <<>>]
    ELSE [runners |-> <<>>, servers |-> <<>>]

\* the stop time is passed where the duration is expected
setup_ss_runners_stop_as_duration(dependency, schedules, ss_filter) ==
    IF dependency
    THEN [i \in 1..Len(schedules) |->
            SsRunner(schedules[i].key[1], schedules[i].key[3],
                     schedules[i].win[1], schedules[i].win[2],
                     schedules[i].key[2], ss_filter)]
    ELSE <<>>

\* the filter is not handed to the runners
setup_ss_runners_unfiltered(dependency, schedules, ss_filter) ==
    IF dependency
    THEN [i \in 1..Len(schedules) |->
            SsRunner(schedules[i].key[1], schedules[i].key[3],
                     schedules[i].win[1],
                     PySub(schedules[i].win[2], schedules[i].win[1]),
                     schedules[i].key[2], <<>>)]
    ELSE <<>>

setup_ss_runners(dependency, schedules, ss_filter) ==
    IF dependency
    THEN [i \in 1..Len(schedules) |->
            SsRunner(schedules[i].key[1], schedules[i].key[3],
                     schedules[i].win[1],
                     PySub(schedules[i].win[2], schedules[i].win[1]),
                     schedules[i].key[2], ss_filter)]
    ELSE <<>>

setup_tc_runners(dependency, stats, exp_end) ==
    IF dependency /\ Len(stats) > 0
    THEN [i \in 1..Len(stats) |-> TcRunner(stats[i].ns_id, stats[i].int_id, exp_end)]
    ELSE <<>>

\* one runner per flow instead of one per key
setup_ping_runners_per_flow(dependency, schedules) ==
    IF dependency
    THEN [i \in 1..Len(flows) |->
            PingRunner(flows[i].src_ns, flows[i].dst_addr, Fin(flows[i].start_t),
                       Fin(flows[i].stop_t - flows[i].start_t), flows[i].dst_ns)]
    ELSE <<>>

setup_ping_runners(dependency, schedules) ==
    IF dependency
    THEN [i \in 1..Len(schedules) |->
            PingRunner(schedules[i].key[1], schedules[i].key[3],
                       schedules[i].win[1],
                       PySub(schedules[i].win[2], schedules[i].win[1]),
                       schedules[i].key[2])]
    ELSE <<>>

-----------------------------------------------------------------------------
(* run_experiment, lines 63-172: scheduling.                               *)

\* the statement reached once the loop over exp.flows is at position i
AfterFlows(i) ==
    IF i <= Len(flows) THEN "flows"
    ELSE IF Len(coap_flows) > 0 THEN "coap_flows" ELSE "setup_ss"

\* the statement reached once the loop over exp.coap_flows is at position i
AfterCoapFlows(i) == IF i <= Len(coap_flows) THEN "coap_flows" ELSE "setup_ss"

ServerCalls(tool, servers, i) ==
    [j \in 1..Len(servers) |->
        [tool |-> tool, ns |-> servers[j].ns, flow |-> i,
         runners |-> servers[j].runners]]

\* one iteration of "for flow in exp.flows", lines 87-142
ProcessFlow ==
    /\ pc = "flows"
    /\ idx <= Len(flows)
    /\ LET flow == flows[idx]
           key == Key(flow)
       IN
       /\ exp_end_t' = PyMax(exp_end_t, Fin(flow.stop_t))
       /\ ping_schedules' =
            Store(ping_schedules, key,
                  MergeWindow(Lookup(ping_schedules, key), flow.start_t, flow.stop_t))
       /\ IF flow.protocol = "TCP"
          THEN LET r == setup_tcp_flows(dependencies["netperf"], flow, ss_schedules,
                                        destination_nodes["netperf"])
               IN
               /\ ss_filters' = ss_filters \cup {NetperfFilter}
               /\ ss_required' = TRUE
               /\ ss_schedules' = r.ss_schedules
               /\ exp_runners' = [exp_runners EXCEPT
                                    !["netperf"] = @ \o r.runners]
               /\ server_starts' = server_starts \o ServerCalls("netperf", r.servers, idx)
               /\ destination_nodes' = [destination_nodes EXCEPT
                                          !["netperf"] = @ \cup {flow.dst_ns}]
          ELSE IF flow.protocol = "UDP"
          THEN LET r == setup_udp_flows(dependencies["iperf3"], flow,
                                        destination_nodes["iperf3"])
               IN
               /\ ss_filters' = ss_filters \cup {Iperf3Filter}
               /\ exp_runners' = [exp_runners EXCEPT
                                    !["iperf3"] = @ \o r.runners]
               /\ server_starts' = server_starts \o ServerCalls("iperf3", r.servers, idx)
               /\ destination_nodes' = [destination_nodes EXCEPT
                                          !["iperf3"] = @ \cup {flow.dst_ns}]
               /\ UNCHANGED <<ss_required, ss_schedules>>
          ELSE UNCHANGED <<ss_filters, ss_required, ss_schedules, exp_runners,
                           server_starts, destination_nodes>>
    /\ idx' = IF AfterFlows(idx + 1) = "flows" THEN idx + 1 ELSE 1
    /\ pc' = AfterFlows(idx + 1)
    /\ UNCHANGED <<topo_vars, input_vars, engine_log, proc_vars, config, dependencies, run_vars>>

\* one iteration of "for coap_flow in exp.coap_flows", lines 144-161
ProcessCoapFlow ==
    /\ pc = "coap_flows"
    /\ idx <= Len(coap_flows)
    /\ LET flow == coap_flows[idx]
           r == setup_coap_runners(dependencies["coap"], flow,
                                   destination_nodes["coap"])
       IN
       /\ config' = [config EXCEPT !.show_progress_bar = FALSE]
       /\ exp_runners' = [exp_runners EXCEPT !["coap"] = @ \o r.runners]
       /\ server_starts' = server_starts \o ServerCalls("coap", r.servers, idx)
       /\ destination_nodes' = [destination_nodes EXCEPT
                                  !["coap"] = @ \cup {flow.dst_ns}]
    /\ idx' = IF AfterCoapFlows(idx + 1) = "coap_flows" THEN idx + 1 ELSE 1
    /\ pc' = AfterCoapFlows(idx + 1)
    /\ UNCHANGED <<topo_vars, input_vars, engine_log, proc_vars, dependencies, ss_schedules, ping_schedules,
                   exp_end_t, ss_required, ss_filters, run_vars>>

\* lines 163-166; " and ".join iterates the set of filters in some order
SetupSs ==
    /\ pc = "setup_ss"
    /\ IF ss_required
       THEN \E ss_filter \in Orders(ss_filters) :
              exp_runners' = [exp_runners EXCEPT !["ss"] =
                   @ \o setup_ss_runners(dependencies["ss"], ss_schedules, ss_filter)]
       ELSE UNCHANGED exp_runners
    /\ pc' = "setup_tc"
    /\ UNCHANGED <<topo_vars, input_vars, engine_log, proc_vars, config, idx, dependencies, destination_nodes,
                   ss_schedules, ping_schedules, exp_end_t, ss_required,
                   ss_filters, server_starts, run_vars>>

\* lines 168-169
SetupTc ==
    /\ pc = "setup_tc"
    /\ exp_runners' = [exp_runners EXCEPT !["tc"] =
            @ \o setup_tc_runners(dependencies["tc"], qdisc_stats, exp_end_t)]
    /\ pc' = "setup_ping"
    /\ UNCHANGED <<topo_vars, input_vars, engine_log, proc_vars, config, idx, dependencies, destination_nodes,
                   ss_schedules, ping_schedules, exp_end_t, ss_required,
                   ss_filters, server_starts, run_vars>>

\* lines 171-172
SetupPing ==
    /\ pc = "setup_ping"
    /\ exp_runners' = [exp_runners EXCEPT !["ping"] =
            @ \o setup_ping_runners(dependencies["ping"], ping_schedules)]
    /\ pc' = "try"
    /\ UNCHANGED <<topo_vars, input_vars, engine_log, proc_vars, config, idx, dependencies, destination_nodes,
                   ss_schedules, ping_schedules, exp_end_t, ss_required,
                   ss_filters, server_starts, run_vars>>

Schedule == ProcessFlow \/ ProcessCoapFlow \/ SetupSs \/ SetupTc \/ SetupPing

\* lines 87-142 as a function of the dependency status d: what the loop
\* over exp.flows has built after its first k iterations
RECURSIVE FlowsScheduled(_, _)
FlowsScheduled(d, k) ==
    IF k = 0
    THEN [netperf |-> <<>>, iperf3 |-> <<>>, ss_schedules |-> <<>>,
          ping_schedules |-> <<>>, ss_required |-> FALSE]
    ELSE LET s == FlowsScheduled(d, k - 1)
             flow == flows[k]
             tcp == setup_tcp_flows(d["netperf"], flow, s.ss_schedules, {})
             udp == setup_udp_flows(d["iperf3"], flow, {})
         IN [netperf |-> IF flow.protocol = "TCP"
                         THEN s.netperf \o tcp.runners ELSE s.netperf,
             iperf3 |-> IF flow.protocol = "UDP"
                        THEN s.iperf3 \o udp.runners ELSE s.iperf3,
             ss_schedules |-> IF flow.protocol = "TCP"
                              THEN tcp.ss_schedules ELSE s.ss_schedules,
             ping_schedules |->
                 Store(s.ping_schedules, Key(flow),
                       MergeWindow(Lookup(s.ping_schedules, Key(flow)),
                                   flow.start_t, flow.stop_t)),
             ss_required |-> s.ss_required \/ flow.protocol = "TCP"]

\* lines 144-161 as a function of d: the CoAP runners of the first k flows
RECURSIVE CoapScheduled(_, _)
CoapScheduled(d, k) ==
    IF k = 0 THEN <<>>
    ELSE CoapScheduled(d, k - 1)
         \o setup_coap_runners(d["coap"], coap_flows[k], {}).runners

\* lines 87-172 as a function of d: the runners run_experiment builds for
\* this experiment when the tools are installed as d says and the ss
\* filters are joined in the order ss_filter
RunnersIf(d, ss_filter) ==
    LET s == FlowsScheduled(d, Len(flows)) IN
    [netperf |-> s.netperf,
     iperf3 |-> s.iperf3,
     coap |-> CoapScheduled(d, Len(coap_flows)),
     ss |-> IF s.ss_required
            THEN setup_ss_runners(d["ss"], s.ss_schedules, ss_filter) ELSE <<>>,
     tc |-> setup_tc_runners(d["tc"], qdisc_stats, exp_end_t),
     ping |-> setup_ping_runners(d["ping"], s.ping_schedules)]

\* the scheduling of an experiment without CoAP flows
ScheduleFlows == ProcessFlow \/ SetupSs \/ SetupTc \/ SetupPing

-----------------------------------------------------------------------------
(* run_experiment, lines 174-211: the three phases and the clean-up.       *)

\* multiprocessing.Process(target=..., args=...), not started yet
Process(kind, tool, i, args) ==
    [kind |-> kind, tool |-> tool, i |-> i, args |-> args, status |-> "new",
     joined |-> FALSE, exitcode |-> 0]

RunnerProcesses(kind, runners, tool) ==
    [i \in 1..Len(runners[tool]) |-> Process(kind, tool, i, <<>>)]

\* the progress bar is never added
setup_flow_workers_no_progress_bar(runners, exp_stop_time) ==
    RunnerProcesses("run", runners, "netperf") \o RunnerProcesses("run", runners, "ss")
    \o RunnerProcesses("run", runners, "tc") \o RunnerProcesses("run", runners, "iperf3")
    \o RunnerProcesses("run", runners, "ping") \o RunnerProcesses("run", runners, "coap")

\* one process per runner, in the order of the namedtuple, and the progress bar
setup_flow_workers(runners, exp_stop_time) ==
    RunnerProcesses("run", runners, "netperf") \o RunnerProcesses("run", runners, "ss")
    \o RunnerProcesses("run", runners, "tc") \o RunnerProcesses("run", runners, "iperf3")
    \o RunnerProcesses("run", runners, "ping") \o RunnerProcesses("run", runners, "coap")
    \o (IF config.show_progress_bar
        THEN <<Process("progress_bar", "none", 0, <<exp_stop_time>>)>>
        ELSE <<>>)

\* the loop over exp_runners.tc is missing
setup_parser_workers_without_tc(runners) ==
    RunnerProcesses("parse", runners, "ss") \o RunnerProcesses("parse", runners, "netperf")
    \o RunnerProcesses("parse", runners, "iperf3")
    \o RunnerProcesses("parse", runners, "ping") \o RunnerProcesses("parse", runners, "coap")

setup_parser_workers(runners) ==
    RunnerProcesses("parse", runners, "ss") \o RunnerProcesses("parse", runners, "netperf")
    \o RunnerProcesses("parse", runners, "iperf3") \o RunnerProcesses("parse", runners, "tc")
    \o RunnerProcesses("parse", runners, "ping") \o RunnerProcesses("parse", runners, "coap")

\* the ping plotter is missing
setup_plotter_workers_without_ping ==
    <<Process("plot", "ss", 0, <<results["ss"]>>),
      Process("plot", "netperf", 0, <<results["netperf"]>>),
      Process("plot", "iperf3", 0, <<results["iperf3"]>>),
      Process("plot", "tc", 0, <<results["tc"]>>)>>

\* each plotter is handed the records of its Result Store
setup_plotter_workers ==
    <<Process("plot", "ss", 0, <<results["ss"]>>),
      Process("plot", "netperf", 0, <<results["netperf"]>>),
      Process("plot", "iperf3", 0, <<results["iperf3"]>>),
      Process("plot", "tc", 0, <<results["tc"]>>),
      Process("plot", "ping", 0, <<results["ping"]>>)>>

\* CoAPResults.output_to_file() is missing
DumpOrderWithoutCoap == <<"ss", "netperf", "iperf3", "tc", "ping">>

\* the order of the output_to_file calls of dump_json_ouputs
DumpOrder == <<"ss", "netperf", "iperf3", "tc", "ping", "coap">>

\* <Tool>Results.add_result(ns, {destination: stats}), as a parser calls it
add_result(res, tool, runner, i) ==
    [res EXCEPT ![tool] = @ \cup {[ns |-> runner.ns, dst |-> runner.dst_addr, i |-> i]}]

\* the remove_all_results calls of cleanup(), lines 687-691
cleanup_results(res) ==
    [res EXCEPT !["ss"] = {}, !["netperf"] = {}, !["tc"] = {},
                !["ping"] = {}, !["coap"] = {}]

\* every namespace is visited twice
engine_calls_twice(op, namespaces) ==
    [i \in DOMAIN namespaces |-> [op |-> op, ns |-> namespaces[i].id]]
    \o [i \in DOMAIN namespaces |-> [op |-> op, ns |-> namespaces[i].id]]

\* nest/clean_up.py, lines 17-18 and 27-28: the engine calls of the loop
\* "for namespace in <namespaces>: engine.<op>(namespace['id'])", in order
engine_calls(op, namespaces) ==
    [i \in DOMAIN namespaces |-> [op |-> op, ns |-> namespaces[i].id]]

\* the loop over the namespaces is never entered
kill_processes_none(k) == k

\* nest/clean_up.py: engine.kill_all_processes for every registered namespace
kill_processes(k) == k \cup Namespaces

\* engine.delete_ns(id): the kernel namespace is removed; asking for a
\* namespace that is gone already is a no-op that raises nothing
delete_ns(kernel, id) == kernel \ {id}

\* the loop "for namespace in namespaces: engine.delete_ns(namespace['id'])"
RECURSIVE DeleteEach(_, _)
DeleteEach(kernel, namespaces) ==
    IF namespaces = <<>> THEN kernel
    ELSE DeleteEach(delete_ns(kernel, Head(namespaces).id), Tail(namespaces))

\* the loop is left after its first iteration
delete_namespaces_first_only(kernel) ==
    IF get_namespaces = <<>> THEN kernel
    ELSE delete_ns(kernel, Head(get_namespaces).id)

\* nest/clean_up.py: engine.delete_ns for every registered namespace
delete_namespaces(kernel) == DeleteEach(kernel, get_namespaces)

\* TopologyMap.delete_all_mapping(): the registry is emptied
EmptyTopologyMap ==
    [namespaces |-> <<>>, interfaces |-> <<>>, networks |-> <<>>,
     orphan_interfaces |-> 0]
delete_all_mapping(tm) == EmptyTopologyMap

\* the entries the TopologyMap holds for a namespace and for an interface;
\* with assign_random_names off, as in the tests of the names, the
\* identifier of an entity is its name
Namespace(name) == [id |-> name, name |-> name]
Interface(name, ns_id, pair) ==
    [id |-> name, name |-> name, ns |-> ns_id, pair |-> pair,
     addresses |-> <<>>]

\* the exception propagating in the main script: none, or its type, the
\* name it is about and its message
NoError == [type |-> "none", name |-> "", msg |-> ""]
Exception == [type |-> "Exception", name |-> "", msg |-> ""]

\* the topology n0 -- r -- n1 of nest/tests/test_experiment.py
TestTopologyMap ==
    [namespaces |-> <<Namespace("n0"), Namespace("n1"), Namespace("r")>>,
     interfaces |-> <<Interface("n0-r-0", "n0", "r-n0-0"),
                      Interface("r-n0-0", "r", "n0-r-0"),
                      Interface("r-n1-0", "r", "n1-r-0"),
                      Interface("n1-r-0", "n1", "r-n1-0")>>,
     networks |-> <<>>,
     orphan_interfaces |-> 4]

\* the Result Stores of the tools whose parsers are modelled step by step:
\* nothing added, nobody adding
EmptyStore == [t \in {"netperf", "ss"} |-> [busy |-> FALSE, value |-> <<>>]]

StartPc == <<"start1", "start2", "start3">>
JoinPc == <<"join1", "join2", "join3">>
\* the statement that follows run_workers of each phase
AfterPhase == <<"parse", "dump", "complete">>
\* the statements of the try block
TryPcs == {"try", "start1", "join1", "parse", "start2", "join2", "dump",
           "plot", "start3", "join3", "complete"}
\* the phase a statement of the try block belongs to (0: between phases)
PhaseOf(p) ==
    CASE p \in {"try", "start1", "join1"} -> 1
      [] p \in {"parse", "start2", "join2"} -> 2
      [] p \in {"plot", "start3", "join3"} -> 3
      [] OTHER -> 0

\* run_workers(ws) of phase p begins: with no worker both loops are empty
EnterRunWorkers(p, ws) == IF Len(ws) = 0 THEN AfterPhase[p] ELSE StartPc[p]

CrashedIn(p) == {i \in DOMAIN workers[p] : workers[p][i].exitcode # 0}
Crashes == Cardinality(CrashedIn(1)) + Cardinality(CrashedIn(2))
           + Cardinality(CrashedIn(3))

\* line 176: setup_flow_workers(exp_runners, exp_end_t)
BeginFlowPhase ==
    /\ pc = "try"
    /\ LET ws == setup_flow_workers(exp_runners, exp_end_t) IN
       /\ workers' = [workers EXCEPT ![1] = ws]
       /\ pc' = EnterRunWorkers(1, ws)
    /\ idx' = 1
    /\ UNCHANGED <<topo_vars, input_vars, engine_log, proc_vars, config, dependencies, destination_nodes,
                   ss_schedules, ping_schedules, exp_end_t, ss_required,
                   ss_filters, exp_runners, server_starts, results, json_files,
                   exc, exc_at, log, cleanup_calls, killed, kernel_ns, exited>>

\* lines 178-181: setup_parser_workers(exp_runners)
BeginParsePhase ==
    /\ pc = "parse"
    /\ LET ws == setup_parser_workers(exp_runners) IN
       /\ workers' = [workers EXCEPT ![2] = ws]
       /\ pc' = EnterRunWorkers(2, ws)
    /\ idx' = 1
    /\ log' = Append(log, "Parsing statistics...")
    /\ UNCHANGED <<topo_vars, input_vars, engine_log, proc_vars, config, dependencies, destination_nodes,
                   ss_schedules, ping_schedules, exp_end_t, ss_required,
                   ss_filters, exp_runners, server_starts, results, json_files,
                   exc, exc_at, cleanup_calls, killed, kernel_ns, exited>>

\* lines 195-199: setup_plotter_workers()
BeginPlotPhase ==
    /\ pc = "plot"
    /\ workers' = [workers EXCEPT ![3] = setup_plotter_workers]
    /\ pc' = EnterRunWorkers(3, setup_plotter_workers)
    /\ idx' = 1
    /\ log' = Append(log, "Plotting results...")
    /\ UNCHANGED <<topo_vars, input_vars, engine_log, proc_vars, config, dependencies, destination_nodes,
                   ss_schedules, ping_schedules, exp_end_t, ss_required,
                   ss_filters, exp_runners, server_starts, results, json_files,
                   exc, exc_at, cleanup_calls, killed, kernel_ns, exited>>

\* run_workers, lines 224-225: worker.start()
StartWorker(p) ==
    /\ pc = StartPc[p]
    /\ idx <= Len(workers[p])
    /\ workers' = [workers EXCEPT ![p][idx].status = "started"]
    /\ IF idx < Len(workers[p])
       THEN idx' = idx + 1 /\ pc' = pc
       ELSE idx' = 1 /\ pc' = JoinPc[p]
    /\ UNCHANGED <<topo_vars, input_vars, engine_log, proc_vars, config, dependencies, destination_nodes,
                   ss_schedules, ping_schedules, exp_end_t, ss_required,
                   ss_filters, exp_runners, server_starts, results, json_files,
                   exc, exc_at, log, cleanup_calls, killed, kernel_ns, exited>>

\* join() returns at once, whether or not the child has ended
JoinWorkerNoWait(p) ==
    /\ pc = JoinPc[p]
    /\ idx <= Len(workers[p])
    /\ workers' = [workers EXCEPT ![p][idx].joined = TRUE]
    /\ IF idx < Len(workers[p])
       THEN idx' = idx + 1 /\ pc' = pc
       ELSE idx' = 1 /\ pc' = AfterPhase[p]
    /\ UNCHANGED <<topo_vars, input_vars, engine_log, proc_vars, config, dependencies, destination_nodes,
                   ss_schedules, ping_schedules, exp_end_t, ss_required,
                   ss_filters, exp_runners, server_starts, results, json_files,
                   exc, exc_at, log, cleanup_calls, killed, kernel_ns, exited>>

\* run_workers, lines 228-229: worker.join() returns once the child has ended
JoinWorker(p) ==
    /\ pc = JoinPc[p]
    /\ idx <= Len(workers[p])
    /\ workers[p][idx].status = "exited"
    /\ workers' = [workers EXCEPT ![p][idx].joined = TRUE]
    /\ IF idx < Len(workers[p])
       THEN idx' = idx + 1 /\ pc' = pc
       ELSE idx' = 1 /\ pc' = AfterPhase[p]
    /\ UNCHANGED <<topo_vars, input_vars, engine_log, proc_vars, config, dependencies, destination_nodes,
                   ss_schedules, ping_schedules, exp_end_t, ss_required,
                   ss_filters, exp_runners, server_starts, results, json_files,
                   exc, exc_at, log, cleanup_calls, killed, kernel_ns, exited>>

\* a started child process ends normally; a parser has deposited its records
WorkerExits(p, i) ==
    /\ pc \in {StartPc[p], JoinPc[p]}
    /\ workers[p][i].status = "started"
    /\ workers' = [workers EXCEPT ![p][i].status = "exited"]
    /\ results' = IF workers[p][i].kind = "parse"
                  THEN add_result(results, workers[p][i].tool,
                                  exp_runners[workers[p][i].tool][workers[p][i].i],
                                  workers[p][i].i)
                  ELSE results
    /\ UNCHANGED <<topo_vars, input_vars, engine_log, proc_vars, config, sched_vars, json_files, exc, exc_at,
                   log, cleanup_calls, killed, kernel_ns, exited>>

\* a started child process ends with an uncaught exception: nothing deposited
WorkerCrashes(p, i) ==
    /\ pc \in {StartPc[p], JoinPc[p]}
    /\ workers[p][i].status = "started"
    /\ Crashes < MaxCrashes
    /\ workers' = [workers EXCEPT ![p][i].status = "exited",
                                  ![p][i].exitcode = 1]
    /\ UNCHANGED <<topo_vars, input_vars, engine_log, proc_vars, config, sched_vars, results, json_files, exc,
                   exc_at, log, cleanup_calls, killed, kernel_ns, exited>>

\* dump_json_ouputs, lines 256-261: one output_to_file call; after the last
\* one the README is copied (lines 189-193, no effect on this state) and
\* plot_results decides whether the plot phase runs
DumpJson ==
    /\ pc = "dump"
    /\ idx <= Len(DumpOrder)
    /\ json_files' = [json_files EXCEPT ![DumpOrder[idx]] =
                        Append(@, results[DumpOrder[idx]])]
    /\ IF idx < Len(DumpOrder)
       THEN idx' = idx + 1 /\ pc' = pc
       ELSE idx' = 1 /\ pc' = IF config.plot_results THEN "plot" ELSE "complete"
    /\ log' = IF idx = 1
              THEN log \o <<"Parsing statistics complete!",
                            "Output results as JSON dump...">>
              ELSE log
    /\ UNCHANGED <<topo_vars, input_vars, engine_log, proc_vars, config, dependencies, destination_nodes,
                   ss_schedules, ping_schedules, exp_end_t, ss_required,
                   ss_filters, exp_runners, server_starts, workers, results,
                   exc, exc_at, cleanup_calls, killed, kernel_ns, exited>>

\* the finally clause is missing: cleanup() is not called
CleanupSkipped == UNCHANGED <<results, killed, cleanup_calls, engine_log>>

\* cleanup(), lines 682-693
Cleanup ==
    /\ results' = cleanup_results(results)
    /\ killed' = kill_processes(killed)
    /\ engine_log' = engine_calls("kill_all_processes", get_namespaces)
    /\ cleanup_calls' = cleanup_calls + 1

\* there is no except clause: every exception leaves run_experiment after
\* the finally clause, and nothing is logged
HandlePropagates(e) == [log |-> <<>>, pc |-> "raised"]

\* what the except clauses of run_experiment do with exception e: the
\* messages logged and the statement reached after the finally clause
Handle(e) ==
    IF e = "KeyboardInterrupt"
    THEN [log |-> <<"Experiment forcefully stopped. The results obtained maybe incomplete!">>,
          pc |-> "returned"]
    ELSE [log |-> <<>>, pc |-> "raised"]

\* lines 203-211 on normal completion: the message, then the finally clause
Complete ==
    /\ pc = "complete"
    /\ log' = (IF config.plot_results THEN Append(log, "Plotting complete!") ELSE log)
              \o <<"Experiment complete!">>
    /\ Cleanup
    /\ pc' = "returned"
    /\ UNCHANGED <<topo_vars, input_vars, proc_vars, config, idx, dependencies, destination_nodes,
                   ss_schedules, ping_schedules, exp_end_t, ss_required,
                   ss_filters, exp_runners, server_starts, workers, json_files,
                   exc, exc_at, kernel_ns, exited>>

\* the exception is swallowed where it is raised and the driver goes on
\* to dump_json_ouputs
RaiseSwallowed(e) ==
    /\ pc \in TryPcs
    /\ exc' = e
    /\ exc_at' = pc
    /\ pc' = "dump"
    /\ idx' = 1
    /\ UNCHANGED <<topo_vars, input_vars, engine_log, proc_vars, config, dependencies, destination_nodes,
                   ss_schedules, ping_schedules, exp_end_t, ss_required,
                   ss_filters, exp_runners, server_starts, workers, results,
                   json_files, log, cleanup_calls, killed, kernel_ns, exited>>

\* an exception e is raised at a statement of the try block: lines 205-211
Raise(e) ==
    /\ pc \in TryPcs
    /\ exc' = e
    /\ exc_at' = pc
    /\ log' = log \o Handle(e).log
    /\ Cleanup
    /\ pc' = Handle(e).pc
    /\ UNCHANGED <<topo_vars, input_vars, proc_vars, config, idx, dependencies, destination_nodes,
                   ss_schedules, ping_schedules, exp_end_t, ss_required,
                   ss_filters, exp_runners, server_starts, workers, json_files,
                   kernel_ns, exited>>

\* SIGINT reaches the driver
Interrupt == Raise("KeyboardInterrupt")

\* any other exception, e.g. OSError from worker.start() or output_to_file
OtherException == Raise("Exception")

\* delete_namespaces is not registered with atexit: the interpreter exits
\* and nothing is deleted
ProcessExitNoFinalizer ==
    /\ pc \in {"returned", "raised", "main"}
    /\ scopes = <<>>
    /\ ~exited
    /\ exited' = TRUE
    /\ UNCHANGED <<topo_vars, input_vars, engine_log, proc_vars, config, sched_vars, workers,
                   results, json_files, exc, exc_at, log, cleanup_calls,
                   killed, kernel_ns>>

\* the interpreter exits: atexit runs delete_namespaces (nest/clean_up.py)
ProcessExit ==
    /\ pc \in {"returned", "raised", "main"}
    /\ scopes = <<>>
    /\ ~exited
    /\ kernel_ns' = delete_namespaces(kernel_ns)
    /\ engine_log' = engine_calls("delete_ns", get_namespaces)
    /\ delete_row' = delete_row + 1
    /\ exited' = TRUE
    /\ UNCHANGED <<topology_map, kernel_if, current_network, scopes, err,
                   input_vars, proc_vars, config, sched_vars, workers, results,
                   json_files, exc, exc_at, log, cleanup_calls, killed>>

RunPhases ==
    \/ BeginFlowPhase \/ BeginParsePhase \/ BeginPlotPhase
    \/ \E p \in 1..3 : StartWorker(p)
    \/ \E p \in 1..3 : JoinWorker(p)
    \/ \E p \in 1..3 : \E i \in DOMAIN workers[p] : WorkerExits(p, i)
    \/ \E p \in 1..3 : \E i \in DOMAIN workers[p] : WorkerCrashes(p, i)
    \/ DumpJson \/ Complete \/ Interrupt \/ OtherException \/ ProcessExit

-----------------------------------------------------------------------------
(* The main script: nodes and their namespaces, and the tear-down.         *)

\* the statements of the main script run while it has not exited and no
\* exception is propagating
Running == pc = "main" /\ ~exited /\ err = NoError

NodeNames == {"n0", "n1", "r"}

\* Node(name): the namespace is created in the kernel and registered
NodeInit(name) ==
    /\ Running
    /\ name \notin Namespaces
    /\ Len(topology_map.namespaces) < MaxNodes
    /\ kernel_ns' = kernel_ns \cup {name}
    /\ topology_map' = [topology_map EXCEPT !.namespaces = Append(@, Namespace(name))]
    /\ delete_row' = 0
    /\ UNCHANGED <<kernel_if, current_network, scopes, err, input_vars, engine_log, proc_vars,
                   config, sched_vars, workers, results, json_files, exc,
                   exc_at, log, cleanup_calls, killed, exited>>

\* a call of delete_namespaces() by the script (the tests' tearDown)
DeleteNamespaces ==
    /\ Running
    /\ delete_row < MaxDeleteCalls
    /\ kernel_ns' = delete_namespaces(kernel_ns)
    /\ engine_log' = engine_calls("delete_ns", get_namespaces)
    /\ delete_row' = delete_row + 1
    /\ UNCHANGED <<topology_map, kernel_if, current_network, scopes, err,
                   input_vars, proc_vars, config, sched_vars, workers, results,
                   json_files, exc, exc_at, log, cleanup_calls, killed,
                   exited>>

\* a call of kill_processes() by the script (cleanup() of run_exp.py makes
\* the same call)
KillProcesses ==
    /\ Running
    /\ killed' = kill_processes(killed)
    /\ engine_log' = engine_calls("kill_all_processes", get_namespaces)
    /\ UNCHANGED <<topo_vars, input_vars, proc_vars, config, sched_vars, workers,
                   results, json_files, exc, exc_at, log, cleanup_calls,
                   kernel_ns, exited>>

\* TopologyMap.delete_all_mapping(), which the tests' tearDown calls after
\* delete_namespaces()
DeleteAllMapping ==
    /\ Running
    /\ delete_row > 0
    /\ topology_map # EmptyTopologyMap
    /\ topology_map' = delete_all_mapping(topology_map)
    /\ UNCHANGED <<kernel_if, current_network, scopes, err, delete_row,
                   input_vars, engine_log, proc_vars, config, sched_vars, workers, results,
                   json_files, exc, exc_at, log, cleanup_calls, killed,
                   kernel_ns, exited>>

\* a namespace is removed from the kernel by someone else (ip netns del)
RemovedOutOfBand(ns) ==
    /\ ~exited
    /\ ns \in kernel_ns
    /\ kernel_ns' = kernel_ns \ {ns}
    /\ UNCHANGED <<topo_vars, input_vars, engine_log, proc_vars, config, sched_vars, workers,
                   results, json_files, exc, exc_at, log, cleanup_calls,
                   killed, exited>>

\* Network.current_network when no Network is the target; the Networks
\* themselves are named 1, 2, ... in the order of their construction
None == 0

\* Network(network_address), network.py lines 27-43
NetworkInit(network_address) ==
    /\ Running
    /\ Len(topology_map.networks) < MaxNetworks
    /\ topology_map' = [topology_map EXCEPT !.networks =
            Append(@, [net_address |-> network_address, interface |-> <<>>])]
    /\ UNCHANGED <<kernel_if, current_network, scopes, err, delete_row,
                   input_vars, engine_log, proc_vars, config, sched_vars, workers, results,
                   json_files, exc, exc_at, log, cleanup_calls, killed,
                   kernel_ns, exited>>

\* "with network:" is entered: Network.__enter__, lines 45-51; a Network
\* is named by its position in the TopologyMap's list of networks
NetworkEnter(network) ==
    /\ Running
    /\ Len(scopes) < MaxScopes
    /\ current_network' = network
    /\ scopes' = Append(scopes, network)
    /\ UNCHANGED <<topology_map, kernel_if, err, delete_row, input_vars, engine_log, proc_vars,
                   config, sched_vars, workers, results, json_files, exc,
                   exc_at, log, cleanup_calls, killed, kernel_ns, exited>>

\* a statement inside a with block raises
RaiseInScope ==
    /\ Running
    /\ scopes # <<>>
    /\ err' = Exception
    /\ UNCHANGED <<topology_map, kernel_if, current_network, scopes,
                   delete_row, input_vars, engine_log, proc_vars, config, sched_vars, workers,
                   results, json_files, exc, exc_at, log, cleanup_calls,
                   killed, kernel_ns, exited>>

\* the target is reset only when the block ends without an exception
NetworkExitOnSuccessOnly ==
    /\ pc = "main" /\ ~exited
    /\ scopes # <<>>
    /\ current_network' = IF err = NoError THEN None ELSE current_network
    /\ scopes' = SubSeq(scopes, 1, Len(scopes) - 1)
    /\ UNCHANGED <<topology_map, kernel_if, err, delete_row, input_vars, engine_log, proc_vars,
                   config, sched_vars, workers, results, json_files, exc,
                   exc_at, log, cleanup_calls, killed, kernel_ns, exited>>

\* the innermost with block is left, at its end or by the exception that
\* is propagating: Network.__exit__, lines 53-57; it returns None, so
\* the exception goes on propagating
NetworkExit ==
    /\ pc = "main" /\ ~exited
    /\ scopes # <<>>
    /\ current_network' = None
    /\ scopes' = SubSeq(scopes, 1, Len(scopes) - 1)
    /\ UNCHANGED <<topology_map, kernel_if, err, delete_row, input_vars, engine_log, proc_vars,
                   config, sched_vars, workers, results, json_files, exc,
                   exc_at, log, cleanup_calls, killed, kernel_ns, exited>>

\* the propagating exception is caught by an except clause of the script
Caught ==
    /\ pc = "main" /\ ~exited
    /\ err # NoError
    /\ err' = NoError
    /\ UNCHANGED <<topology_map, kernel_if, current_network, scopes,
                   delete_row, input_vars, engine_log, proc_vars, config, sched_vars, workers,
                   results, json_files, exc, exc_at, log, cleanup_calls,
                   killed, kernel_ns, exited>>

\* the kernel's limit on the length of a device name
MaxNameLen == 15

DeviceNameTooLong(name) ==
    [type |-> "ValueError", name |-> name,
     msg |-> "Device name " \o name \o " is too long. Device names "
             \o "should not exceed " \o ToString(MaxNameLen) \o " characters"]

AutoNameTooLong(name) ==
    [type |-> "ValueError", name |-> name,
     msg |-> "Auto-generated device name " \o name \o " is "
             \o "too long. The length of name should not exceed "
             \o ToString(MaxNameLen) \o " characters."]

\* a name of exactly MaxNameLen characters is refused as well
interface_init_off_by_one(tm, name) ==
    IF Len(name) >= MaxNameLen
    THEN [err |-> DeviceNameTooLong(name), topology_map |-> tm]
    ELSE [err |-> NoError,
          topology_map |-> [tm EXCEPT
              !.interfaces = Append(@, Interface(name, "", "")),
              !.orphan_interfaces = @ + 1]]

\* Interface(name): the name is checked before anything is registered
interface_init(tm, name) ==
    IF Len(name) > MaxNameLen
    THEN [err |-> DeviceNameTooLong(name), topology_map |-> tm]
    ELSE [err |-> NoError,
          topology_map |-> [tm EXCEPT
              !.interfaces = Append(@, Interface(name, "", "")),
              !.orphan_interfaces = @ + 1]]

\* the number of links there are between namespaces a and b
NumberOfConnections(tm, a, b) ==
    Cardinality({i \in DOMAIN tm.interfaces :
        /\ tm.interfaces[i].ns = a
        /\ \E j \in DOMAIN tm.interfaces :
              /\ tm.interfaces[j].id = tm.interfaces[i].pair
              /\ tm.interfaces[j].ns = b})

\* the links are numbered from one
AutoNameFromOne(a, b, k) == a \o "-" \o b \o "-" \o ToString(k + 1)

\* the name derived for the end in a of the k-th link between a and b
AutoName(a, b, k) == a \o "-" \o b \o "-" \o ToString(k)

\* the two interfaces registered last become the two ends of a link
\* between a and b, and the veth pair is created in the kernel
register_pair(tm, kif, a, b) ==
    LET n == Len(tm.interfaces)
        first == tm.interfaces[n - 1]
        second == tm.interfaces[n]
    IN [err |-> NoError,
        topology_map |-> [tm EXCEPT
            !.interfaces[n - 1] = Interface(first.name, a, second.id),
            !.interfaces[n] = Interface(second.name, b, first.id)],
        kernel_if |-> kif \cup {first.id, second.id}]

\* the first interface stays registered when the second one is refused
connect_no_rollback(tm, kif, a, b, name1, name2) ==
    LET k == NumberOfConnections(tm, a, b)
        n1 == IF name1 = "" THEN AutoName(a, b, k) ELSE name1
        n2 == IF name2 = "" THEN AutoName(b, a, k) ELSE name2
        first == interface_init(tm, n1)
        second == interface_init(first.topology_map, n2)
    IN IF first.err # NoError
       THEN [err |-> first.err, topology_map |-> tm, kernel_if |-> kif]
       ELSE IF second.err # NoError
       THEN [err |-> second.err, topology_map |-> first.topology_map,
             kernel_if |-> kif]
       ELSE register_pair(second.topology_map, kif, a, b)

\* connect(a, b, name1, name2): an empty name asks for the derived one; both
\* ends are made and registered, or neither is
connect(tm, kif, a, b, name1, name2) ==
    LET k == NumberOfConnections(tm, a, b)
        n1 == IF name1 = "" THEN AutoName(a, b, k) ELSE name1
        n2 == IF name2 = "" THEN AutoName(b, a, k) ELSE name2
        first == interface_init(tm, n1)
        second == interface_init(first.topology_map, n2)
    IN IF name1 = "" /\ Len(n1) > MaxNameLen
       THEN [err |-> AutoNameTooLong(n1), topology_map |-> tm, kernel_if |-> kif]
       ELSE IF name2 = "" /\ Len(n2) > MaxNameLen
       THEN [err |-> AutoNameTooLong(n2), topology_map |-> tm, kernel_if |-> kif]
       ELSE IF first.err # NoError
       THEN [err |-> first.err, topology_map |-> tm, kernel_if |-> kif]
       ELSE IF second.err # NoError
       THEN [err |-> second.err, topology_map |-> tm, kernel_if |-> kif]
       ELSE register_pair(second.topology_map, kif, a, b)

RegisteredNames ==
    {topology_map.interfaces[i].name : i \in DOMAIN topology_map.interfaces}

\* the script constructs an Interface by name
InterfaceInit(name) ==
    /\ Running
    /\ name \notin RegisteredNames
    /\ LET r == interface_init(topology_map, name) IN
       /\ err' = r.err
       /\ topology_map' = r.topology_map
    /\ UNCHANGED <<kernel_if, current_network, scopes, delete_row,
                   input_vars, engine_log, proc_vars, config, sched_vars, workers, results,
                   json_files, exc, exc_at, log, cleanup_calls, killed,
                   kernel_ns, exited>>

\* the script connects two of its nodes
Connect(a, b, name1, name2) ==
    /\ Running
    /\ a \in Namespaces /\ b \in Namespaces /\ a # b
    /\ {name1, name2} \cap RegisteredNames = {}
    /\ Cardinality({i \in DOMAIN topology_map.interfaces :
                      topology_map.interfaces[i].pair # ""}) < 2 * MaxLinks
    /\ LET r == connect(topology_map, kernel_if, a, b, name1, name2) IN
       /\ err' = r.err
       /\ topology_map' = r.topology_map
       /\ kernel_if' = r.kernel_if
    /\ UNCHANGED <<current_network, scopes, delete_row, input_vars, engine_log, proc_vars, config,
                   sched_vars, workers, results, json_files, exc, exc_at,
                   log, cleanup_calls, killed, kernel_ns, exited>>

\* the names of nest/tests/test_topology.py
LinkNodeNames == {"node0", "node1", "longname0", "longname1"}
InterfaceNames == {"namewith15chars", "looonginvalidname"}
\* the pairs of names handed to connect: "" asks for the derived name
LinkNames == {<<"", "">>, <<"eth4", "eth5">>, <<"eth4", "looonginvalidname">>,
              <<"looonginvalidname", "eth5">>}

Links ==
    \/ \E name \in LinkNodeNames : NodeInit(name)
    \/ \E name \in InterfaceNames : InterfaceInit(name)
    \/ \E a, b \in LinkNodeNames : \E names \in LinkNames :
          Connect(a, b, names[1], names[2])
    \/ Caught

\* the name of the interface that shapes the ingress of an interface
ifb_name(name) == "ifb-" \o name

\* the error quotes the interface that is shaped
set_attributes_quotes_original(tm, kif, i) ==
    LET name == tm.interfaces[i].name
        r == interface_init(tm, ifb_name(name))
    IN IF r.err # NoError
       THEN [err |-> DeviceNameTooLong(name), topology_map |-> tm,
             kernel_if |-> kif]
       ELSE [err |-> NoError, topology_map |-> r.topology_map,
             kernel_if |-> kif \cup {ifb_name(name)}]

\* interface.set_attributes(bandwidth, delay, qdisc): the shaping interface
\* is constructed as an Interface of its own before the kernel is touched
set_attributes(tm, kif, i) ==
    LET name == tm.interfaces[i].name
        r == interface_init(tm, ifb_name(name))
    IN IF r.err # NoError
       THEN [err |-> r.err, topology_map |-> tm, kernel_if |-> kif]
       ELSE [err |-> NoError, topology_map |-> r.topology_map,
             kernel_if |-> kif \cup {ifb_name(name)}]

\* the script shapes the end of a link that is not shaped yet
SetAttributes(i) ==
    /\ Running
    /\ i \in DOMAIN topology_map.interfaces
    /\ topology_map.interfaces[i].pair # ""
    /\ ifb_name(topology_map.interfaces[i].name) \notin RegisteredNames
    /\ LET r == set_attributes(topology_map, kernel_if, i) IN
       /\ err' = r.err
       /\ topology_map' = r.topology_map
       /\ kernel_if' = r.kernel_if
    /\ UNCHANGED <<current_network, scopes, delete_row, input_vars, engine_log, proc_vars, config,
                   sched_vars, workers, results, json_files, exc, exc_at,
                   log, cleanup_calls, killed, kernel_ns, exited>>

\* test_invalid_ifb_interface_name, with a link of given names as well
Shaping ==
    \/ \E name \in {"node0", "node1"} : NodeInit(name)
    \/ \E names \in {<<"", "">>, <<"eth4", "eth5">>} :
          Connect("node0", "node1", names[1], names[2])
    \/ \E i \in 1..(2 * MaxLinks) : SetAttributes(i)
    \/ Caught

\* the addresses of nest/tests/test_topology.py, and those that are IPv6
Ipv6Addresses == {"2001:1:1:1443::412/122", "2001:1:1:1443::413/122"}
InterfaceAddresses == {"10.1.1.2/24", "10.1.1.3/24"} \cup Ipv6Addresses
\* Address(address).is_ipv6()
is_ipv6(address) == address \in Ipv6Addresses

\* interface.set_address(new): the addresses of the interface become new
set_address(addresses, new) == new

\* interface.add_address(new): new is assigned after what is assigned
add_address(addresses, new) == addresses \o new

NotAssigned(address) ==
    "Cannot delete an address that is not assigned. (" \o address \o ")"

\* deleting an address that is not assigned goes unnoticed
del_one_silent(st, address) ==
    IF \E i \in DOMAIN st.addresses : st.addresses[i] = address
    THEN [st EXCEPT !.addresses = SelectSeq(@, LAMBDA x : x # address)]
    ELSE st

\* del_address of one address, on the addresses and the log
del_one(st, address) ==
    IF \E i \in DOMAIN st.addresses : st.addresses[i] = address
    THEN [st EXCEPT !.addresses = SelectSeq(@, LAMBDA x : x # address)]
    ELSE [st EXCEPT !.log = Append(@, NotAssigned(address))]

\* interface.del_address(dels): one address after the other
RECURSIVE del_address(_, _)
del_address(st, dels) ==
    IF dels = <<>> THEN st
    ELSE del_address(del_one(st, Head(dels)), Tail(dels))

EitherFamily ==
    [type |-> "ValueError", name |-> "",
     msg |-> "Either ipv4 or ipv6 argument must be True"]

\* the addresses of a family before those of the other
get_address_by_family(addresses, ipv4, ipv6) ==
    IF ~ipv4 /\ ~ipv6
    THEN [err |-> EitherFamily, value |-> <<>>]
    ELSE [err |-> NoError,
          value |-> SelectSeq(addresses, LAMBDA x : ipv4 /\ ~is_ipv6(x))
                    \o SelectSeq(addresses, LAMBDA x : ipv6 /\ is_ipv6(x))]

\* interface.get_address(ipv4, ipv6, True)
get_address(addresses, ipv4, ipv6) ==
    IF ~ipv4 /\ ~ipv6
    THEN [err |-> EitherFamily, value |-> <<>>]
    ELSE [err |-> NoError,
          value |-> SelectSeq(addresses,
                        LAMBDA x : IF is_ipv6(x) THEN ipv6 ELSE ipv4)]

\* the addresses of interface i
AddressesOf(i) == topology_map.interfaces[i].addresses

\* the interface calls of the main script leave all but these alone
AddressFrame ==
    UNCHANGED <<kernel_if, current_network, scopes, delete_row, input_vars, engine_log, proc_vars,
                config, sched_vars, workers, results, json_files, exc,
                exc_at, cleanup_calls, killed, kernel_ns, exited>>

SetAddress(i, new) ==
    /\ Running
    /\ i \in DOMAIN topology_map.interfaces
    /\ Len(new) <= MaxAddresses
    /\ topology_map' = [topology_map EXCEPT
           !.interfaces[i].addresses = set_address(@, new)]
    /\ UNCHANGED <<err, log>>
    /\ AddressFrame

AddAddress(i, new) ==
    /\ Running
    /\ i \in DOMAIN topology_map.interfaces
    /\ \A k \in DOMAIN new : \A j \in DOMAIN AddressesOf(i) :
          AddressesOf(i)[j] # new[k]
    /\ Len(AddressesOf(i)) + Len(new) <= MaxAddresses
    /\ topology_map' = [topology_map EXCEPT
           !.interfaces[i].addresses = add_address(@, new)]
    /\ UNCHANGED <<err, log>>
    /\ AddressFrame

DelAddress(i, dels) ==
    /\ Running
    /\ i \in DOMAIN topology_map.interfaces
    /\ LET st == del_address([addresses |-> AddressesOf(i), log |-> log],
                             dels) IN
       /\ Len(st.log) <= MaxWarnings
       /\ topology_map' = [topology_map EXCEPT
              !.interfaces[i].addresses = st.addresses]
       /\ log' = st.log
    /\ UNCHANGED err
    /\ AddressFrame

GetAddress(i, ipv4, ipv6) ==
    /\ Running
    /\ i \in DOMAIN topology_map.interfaces
    /\ err' = get_address(AddressesOf(i), ipv4, ipv6).err
    /\ UNCHANGED <<topology_map, log>>
    /\ AddressFrame

\* the lists of addresses handed to an interface: one or two addresses
AddressLists ==
    {<<a>> : a \in InterfaceAddresses}
    \cup {<<a, b>> : <<a, b>> \in
             {p \in InterfaceAddresses \X InterfaceAddresses : p[1] # p[2]}}

\* test_add_addr, test_get_addr and test_del_addr on the interface n1_n0
Addressing ==
    \/ \E name \in {"n0", "n1"} : NodeInit(name)
    \/ Connect("n0", "n1", "", "")
    \/ \E new \in AddressLists : SetAddress(2, new)
    \/ \E new \in AddressLists : AddAddress(2, new)
    \/ \E dels \in AddressLists : DelAddress(2, dels)
    \/ \E ipv4, ipv6 \in BOOLEAN : GetAddress(2, ipv4, ipv6)
    \/ Caught

\* TopologyMap.decrement_orphan_interfaces()
decrement_orphan_interfaces(tm) == [tm EXCEPT !.orphan_interfaces = @ - 1]

\* network.add_interface(_interface), network.py lines 61-71; network is
\* the Network's position in the TopologyMap's list of networks
add_interface(tm, network, interface) ==
    decrement_orphan_interfaces(
        [tm EXCEPT !.networks[network].interface = Append(@, interface)])

\* the script adds one of its interfaces to one of its Networks
AddInterface(network, i) ==
    /\ Running
    /\ Len(topology_map.networks[network].interface) < MaxMembers
    /\ topology_map' = add_interface(topology_map, network,
                                     topology_map.interfaces[i].id)
    /\ UNCHANGED <<kernel_if, current_network, scopes, err, delete_row,
                   input_vars, engine_log, proc_vars, config, sched_vars, workers, results,
                   json_files, exc, exc_at, log, cleanup_calls, killed,
                   kernel_ns, exited>>

Membership ==
    \/ \E a \in {"10.0.0.0/24"} : NetworkInit(a)
    \/ \E name \in {"eth4", "eth5"} : InterfaceInit(name)
    \/ \E network \in DOMAIN topology_map.networks :
          \E i \in DOMAIN topology_map.interfaces : AddInterface(network, i)

NetworkAddresses == {"10.0.0.0/24", "192.168.1.0/24"}

NetworkScopes ==
    \/ \E a \in NetworkAddresses : NetworkInit(a)
    \/ \E n \in DOMAIN topology_map.networks : NetworkEnter(n)
    \/ RaiseInScope
    \/ NetworkExit
    \/ Caught
    \/ ProcessExit

Teardown ==
    \/ \E name \in NodeNames : NodeInit(name)
    \/ InterfaceInit("eth4")
    \/ NetworkInit("10.0.0.0/24")
    \/ DeleteNamespaces
    \/ KillProcesses
    \/ DeleteAllMapping
    \/ \E ns \in NodeNames : RemovedOutOfBand(ns)
    \/ ProcessExit

-----------------------------------------------------------------------------
(* The experiments and environments the specifications start from.         *)

Flow(key, start_t, stop_t, n_flows, protocol) ==
    [src_ns |-> key[1], dst_ns |-> key[2], dst_addr |-> key[3],
     start_t |-> start_t, stop_t |-> stop_t, n_flows |-> n_flows,
     protocol |-> protocol]

CoapFlow(key) == [src_ns |-> key[1], dst_ns |-> key[2], dst_addr |-> key[3]]

\* the sequences over S of length at most n
SeqsUpTo(S, n) == UNION {[1..k -> S] : k \in 0..n}

\* endpoints on the topology n0 -- r -- n1 of nest/tests/test_experiment.py
KeyN0N1 == <<"n0", "n1", "10.1.2.1">>
KeyRN1 == <<"r", "n1", "10.1.2.1">>
KeyN1N0 == <<"n1", "n0", "10.1.1.1">>

AllInstalled == [t \in ToolSet |-> TRUE]
Without(S) == [t \in ToolSet |-> t \notin S]

\* the state in which the main script calls exp.run()
InitWith(flowLists, coapLists, qdiscLists, depSet, configs) ==
    /\ topology_map = TestTopologyMap
    /\ kernel_if = {"n0-r-0", "r-n0-0", "r-n1-0", "n1-r-0"}
    /\ current_network = None
    /\ scopes = <<>>
    /\ err = NoError
    /\ delete_row = 0
    /\ procs = <<>>
    /\ store = EmptyStore
    /\ lock = None
    /\ engine_log = <<>>
    /\ flows \in flowLists
    /\ coap_flows \in coapLists
    /\ qdisc_stats \in qdiscLists
    /\ config \in configs
    /\ dependencies \in depSet
    /\ pc = AfterFlows(1)
    /\ idx = 1
    /\ destination_nodes = [t \in ServerTools |-> {}]
    /\ ss_schedules = <<>>
    /\ ping_schedules = <<>>
    /\ exp_end_t = NInf
    /\ ss_required = FALSE
    /\ ss_filters = {}
    /\ exp_runners = [t \in ToolSet |-> <<>>]
    /\ server_starts = <<>>
    /\ workers = [p \in 1..3 |-> <<>>]
    /\ results = [t \in ToolSet |-> {}]
    /\ json_files = [t \in ToolSet |-> <<>>]
    /\ exc = "none"
    /\ exc_at = "none"
    /\ log = <<>>
    /\ cleanup_calls = 0
    /\ killed = {}
    /\ kernel_ns = Namespaces
    /\ exited = FALSE

DefaultConfig == [show_progress_bar |-> TRUE, plot_results |-> TRUE]
Configs == [show_progress_bar : BOOLEAN, plot_results : BOOLEAN]

\* ---- scheduling of servers: flows that differ in endpoints and protocol
ServerFlowPool == {Flow(k, 0, 5, 1, proto) :
                     k \in {KeyN0N1, KeyRN1, KeyN1N0}, proto \in {"TCP", "UDP"}}
ServerCoapPool == {CoapFlow(KeyN0N1), CoapFlow(KeyN1N0)}
ServerDeps == {Without(S) : S \in SUBSET ServerTools}

InitServers ==
    InitWith(SeqsUpTo(ServerFlowPool, MaxFlows), SeqsUpTo(ServerCoapPool, MaxCoapFlows),
             {<<>>}, ServerDeps, {DefaultConfig})

SpecServers == InitServers /\ [][Schedule]_vars

\* ---- scheduling of windows: flows that differ in window, endpoints, protocol
WindowPool == {<<0, 5>>, <<2, 8>>, <<1, 3>>, <<1, 5>>, <<3, 10>>, <<0, 2>>}
WindowFlowPool == {Flow(e[1], w[1], w[2], 1, e[2]) :
                     e \in {<<KeyN0N1, "TCP">>, <<KeyN0N1, "UDP">>, <<KeyN1N0, "TCP">>},
                     w \in WindowPool}
WindowDeps == {AllInstalled, Without({"netperf", "ping"})}

InitWindows ==
    InitWith(SeqsUpTo(WindowFlowPool, MaxFlows), {<<>>}, {<<>>}, WindowDeps,
             {DefaultConfig})

SpecWindows == InitWindows /\ [][ScheduleFlows]_vars

\* ---- scheduling of parallel streams: flows that differ in the number of
\* ---- streams, the window and the protocol
ParallelFlowPool == {Flow(KeyN0N1, w[1], w[2], n, proto) :
                       w \in {<<0, 5>>, <<2, 8>>}, n \in 1..MaxParallel,
                       proto \in {"TCP", "UDP"}}
ParallelDeps == {AllInstalled, Without({"netperf", "iperf3"})}

InitParallel ==
    InitWith(SeqsUpTo(ParallelFlowPool, MaxFlows), {<<>>}, {<<>>}, ParallelDeps,
             {DefaultConfig})

SpecParallel == InitParallel /\ [][ScheduleFlows]_vars

\* ---- scheduling with tools missing: flows of both protocols, CoAP flows and
\* ---- a qdisc to sample, with at most two of the six tools not installed;
\* ---- the run goes on until the flow workers have been set up
ToolFlowPool == {Flow(KeyN0N1, 0, 5, 1, "TCP"), Flow(KeyN0N1, 2, 8, 1, "TCP"),
                 Flow(KeyN0N1, 0, 5, 1, "UDP"), Flow(KeyN1N0, 1, 3, 1, "TCP")}
ToolCoapPool == {CoapFlow(KeyN0N1)}
ToolQdiscStats == {<<>>, <<[ns_id |-> "r", int_id |-> "r-n1-0", qdisc |-> "pie"]>>}
ToolDeps == {Without(S) : S \in {T \in SUBSET ToolSet : Cardinality(T) <= 2}}

InitTools ==
    InitWith(SeqsUpTo(ToolFlowPool, MaxFlows), SeqsUpTo(ToolCoapPool, MaxCoapFlows),
             ToolQdiscStats, ToolDeps, {DefaultConfig})

ScheduleAndSetUp == Schedule \/ BeginFlowPhase

SpecTools == InitTools /\ [][ScheduleAndSetUp]_vars

-----------------------------------------------------------------------------
(* The child processes of the runners: NetperfRunner.run and               *)
(* NetperfRunner.parse (parser/netperf.py) and parse_ss (ss_parse.py).     *)

\* a child process that has not run yet: target is what it runs, i tells
\* it from the others; slept is the time it has spent in time.sleep, item
\* its copy of the Result Store while it adds to it
ChildProcess(target, i, start_time) ==
    [target |-> target, i |-> i, ns_name |-> "n0",
     destination_ip |-> "10.0.0.2", start_time |-> start_time,
     pc |-> IF target = "NetperfRunner.parse" THEN "add_result" ELSE "start",
     slept |-> 0, spawned |-> FALSE, spawned_after |-> 0, item |-> <<>>]

\* the Result Store a process adds to
StoreOf(proc) == IF proc.target = "parse_ss" THEN "ss" ELSE "netperf"

\* what a parser adds: its namespace, its destination and its records, in
\* the order of their timestamps
ResultOf(proc) ==
    [ns_name |-> proc.ns_name, destination_ip |-> proc.destination_ip,
     stats |-> <<[runner |-> proc.i, timestamp |-> 1],
                 [runner |-> proc.i, timestamp |-> 2]>>]

ProcFrame ==
    UNCHANGED <<topo_vars, input_vars, engine_log, config, sched_vars, run_vars>>

\* worker.start() of a process that runs target
Fork(target, start_time) ==
    /\ Running
    /\ Len(procs) < MaxProcs
    /\ procs' = Append(procs, ChildProcess(target, Len(procs) + 1, start_time))
    /\ UNCHANGED <<store, lock>>
    /\ ProcFrame

\* the tool is invoked at once whatever start_time is
SleepUntilStartSkipped(i) ==
    /\ i \in DOMAIN procs
    /\ procs[i].pc = "start"
    /\ procs' = [procs EXCEPT ![i].pc = "popen"]
    /\ UNCHANGED <<store, lock>>
    /\ ProcFrame

\* netperf.py lines 128-129, ss_parse.py lines 152-153:
\* if start_time != 0: time.sleep(start_time)
SleepUntilStart(i) ==
    /\ i \in DOMAIN procs
    /\ procs[i].pc = "start"
    /\ procs' = [procs EXCEPT
           ![i].pc = IF procs[i].start_time # 0 THEN "sleeping" ELSE "popen"]
    /\ UNCHANGED <<store, lock>>
    /\ ProcFrame

\* time.sleep(start_time) returns: start_time has gone by
Wake(i) ==
    /\ i \in DOMAIN procs
    /\ procs[i].pc = "sleeping"
    /\ procs' = [procs EXCEPT ![i].pc = "popen",
                              ![i].slept = procs[i].start_time]
    /\ UNCHANGED <<store, lock>>
    /\ ProcFrame

\* subprocess.Popen(command): netperf.py lines 131-132; ss_parse.py line
\* 28, called from the loop of parse
Popen(i) ==
    /\ i \in DOMAIN procs
    /\ procs[i].pc = "popen"
    /\ procs' = [procs EXCEPT ![i].pc = "communicate",
                              ![i].spawned = TRUE,
                              ![i].spawned_after = procs[i].slept]
    /\ UNCHANGED <<store, lock>>
    /\ ProcFrame

\* proc.communicate() returns: run returns (netperf.py line 134), the loop
\* of parse is left (ss_parse.py lines 56-96)
Communicate(i) ==
    /\ i \in DOMAIN procs
    /\ procs[i].pc = "communicate"
    /\ procs' = [procs EXCEPT
           ![i].pc = IF procs[i].target = "parse_ss" THEN "lock" ELSE "done"]
    /\ UNCHANGED <<store, lock>>
    /\ ProcFrame

\* ss_parse.py line 98: lock.acquire()
LockAcquire(i) ==
    /\ i \in DOMAIN procs
    /\ procs[i].pc = "lock"
    /\ lock = None
    /\ lock' = i
    /\ procs' = [procs EXCEPT ![i].pc = "add_result"]
    /\ UNCHANGED store
    /\ ProcFrame

\* the Result Store is read without waiting for the process that is adding
AddResultGetUnsynchronized(i) ==
    /\ i \in DOMAIN procs
    /\ procs[i].pc = "add_result"
    /\ store' = [store EXCEPT ![StoreOf(procs[i])].busy = TRUE]
    /\ procs' = [procs EXCEPT ![i].pc = "put",
                              ![i].item = store[StoreOf(procs[i])].value]
    /\ UNCHANGED lock
    /\ ProcFrame

\* <Tool>Results.add_result, first half: the process waits until no other
\* process is adding, enters the critical section and reads the results
AddResultGet(i) ==
    /\ i \in DOMAIN procs
    /\ procs[i].pc = "add_result"
    /\ ~store[StoreOf(procs[i])].busy
    /\ store' = [store EXCEPT ![StoreOf(procs[i])].busy = TRUE]
    /\ procs' = [procs EXCEPT ![i].pc = "put",
                              ![i].item = store[StoreOf(procs[i])].value]
    /\ UNCHANGED lock
    /\ ProcFrame

\* <Tool>Results.add_result, second half: the result is appended to what
\* was read, written back, and the critical section is left
AddResultPut(i) ==
    /\ i \in DOMAIN procs
    /\ procs[i].pc = "put"
    /\ store' = [store EXCEPT ![StoreOf(procs[i])] =
           [busy |-> FALSE,
            value |-> Append(procs[i].item, ResultOf(procs[i]))]]
    /\ procs' = [procs EXCEPT
           ![i].pc = IF procs[i].target = "parse_ss" THEN "unlock" ELSE "done"]
    /\ UNCHANGED lock
    /\ ProcFrame

\* ss_parse.py line 100: lock.release()
LockRelease(i) ==
    /\ i \in DOMAIN procs
    /\ procs[i].pc = "unlock"
    /\ lock' = None
    /\ procs' = [procs EXCEPT ![i].pc = "done"]
    /\ UNCHANGED store
    /\ ProcFrame

Targets == {"NetperfRunner.run", "NetperfRunner.parse", "parse_ss"}
\* the start offsets of the runners, in seconds
StartTimes == {0, 2}

Runners ==
    \/ \E target \in Targets : \E start_time \in StartTimes :
          Fork(target, start_time)
    \/ \E i \in 1..MaxProcs :
          \/ SleepUntilStart(i) \/ Wake(i) \/ Popen(i) \/ Communicate(i)
          \/ LockAcquire(i) \/ AddResultGet(i) \/ AddResultPut(i)
          \/ LockRelease(i)

\* ---- the main script before it runs an experiment: nothing is registered
InitMain ==
    /\ topology_map = EmptyTopologyMap
    /\ kernel_if = {}
    /\ current_network = None
    /\ scopes = <<>>
    /\ err = NoError
    /\ delete_row = 0
    /\ procs = <<>>
    /\ store = EmptyStore
    /\ lock = None
    /\ engine_log = <<>>
    /\ flows = <<>> /\ coap_flows = <<>> /\ qdisc_stats = <<>>
    /\ config = DefaultConfig
    /\ dependencies = AllInstalled
    /\ pc = "main"
    /\ idx = 1
    /\ destination_nodes = [t \in ServerTools |-> {}]
    /\ ss_schedules = <<>>
    /\ ping_schedules = <<>>
    /\ exp_end_t = NInf
    /\ ss_required = FALSE
    /\ ss_filters = {}
    /\ exp_runners = [t \in ToolSet |-> <<>>]
    /\ server_starts = <<>>
    /\ workers = [p \in 1..3 |-> <<>>]
    /\ results = [t \in ToolSet |-> {}]
    /\ json_files = [t \in ToolSet |-> <<>>]
    /\ exc = "none"
    /\ exc_at = "none"
    /\ log = <<>>
    /\ cleanup_calls = 0
    /\ killed = {}
    /\ kernel_ns = {}
    /\ exited = FALSE

\* ---- a test process: nodes are made, torn down and made again, and the
\* ---- process exits
SpecTeardown == InitMain /\ [][Teardown]_vars

\* ---- a script that constructs Networks and enters and leaves their scopes
SpecNetwork == InitMain /\ [][NetworkScopes]_vars

\* ---- a script that makes nodes, interfaces and links
SpecLinks == InitMain /\ [][Links]_vars

\* ---- a script that makes two nodes, links them and shapes the links
SpecShaping == InitMain /\ [][Shaping]_vars

\* ---- a script that assigns addresses to an end of a link and deletes them
SpecAddresses == InitMain /\ [][Addressing]_vars

\* ---- the child processes of runners, started by a script at any time
SpecRunners == InitMain /\ [][Runners]_vars

\* ---- a script that constructs Networks and interfaces and adds interfaces
\* ---- to Networks
SpecMembership == InitMain /\ [][Membership]_vars

\* ---- the whole of run_experiment, on the experiments of
\* ---- nest/tests/test_experiment.py
TestTcp == [flows |-> <<Flow(KeyN0N1, 0, 5, 2, "TCP")>>, coap_flows |-> <<>>,
            qdisc_stats |-> <<>>]
TestTcpQdisc == [flows |-> <<Flow(KeyN0N1, 0, 5, 2, "TCP")>>, coap_flows |-> <<>>,
                 qdisc_stats |-> <<[ns_id |-> "r", int_id |-> "r-n1-0",
                                    qdisc |-> "pie"]>>]
TestUdp == [flows |-> <<Flow(KeyN0N1, 0, 5, 2, "UDP")>>, coap_flows |-> <<>>,
            qdisc_stats |-> <<>>]
TestCoap == [flows |-> <<>>, coap_flows |-> <<CoapFlow(KeyN0N1), CoapFlow(KeyN0N1)>>,
             qdisc_stats |-> <<>>]
TestExperiments == {TestTcp, TestTcpQdisc, TestUdp, TestCoap}

Init ==
    \E e \in TestExperiments :
        InitWith({e.flows}, {e.coap_flows}, {e.qdisc_stats}, {AllInstalled}, Configs)

Next == Schedule \/ RunPhases

Spec == Init /\ [][Next]_vars

-----------------------------------------------------------------------------
(* Properties of the scheduling.                                           *)

\* the positions of exp.flows whose loop iteration has been executed
DoneFlows == IF pc = "flows" THEN 1..(idx - 1) ELSE DOMAIN flows
\* the positions of exp.coap_flows whose loop iteration has been executed
DoneCoapFlows == IF pc = "flows" THEN {}
                 ELSE IF pc = "coap_flows" THEN 1..(idx - 1)
                 ELSE DOMAIN coap_flows

\* the executed iterations that concern `tool` and destination namespace ns
FlowsTo(tool, ns) ==
    CASE tool = "netperf" ->
           {i \in DoneFlows : flows[i].protocol = "TCP" /\ flows[i].dst_ns = ns}
      [] tool = "iperf3" ->
           {i \in DoneFlows : flows[i].protocol = "UDP" /\ flows[i].dst_ns = ns}
      [] tool = "coap" -> {i \in DoneCoapFlows : coap_flows[i].dst_ns = ns}

StartsOf(tool, ns) ==
    {j \in DOMAIN server_starts :
        server_starts[j].tool = tool /\ server_starts[j].ns = ns}

SetMin(S) == CHOOSE x \in S : \A y \in S : x <= y
SetMax(S) == CHOOSE x \in S : \A y \in S : x >= y

\* C1: at most one server-start call per (tool, destination namespace); it
\* is issued by the first flow of that tool to that destination, and it is
\* issued whatever the flows of the other tools are (when the tool is
\* installed, exactly one call as soon as one flow of the tool targets ns)
C1_AtMostOneServerStart ==
    \A tool \in ServerTools, ns \in Namespaces :
        /\ Cardinality(StartsOf(tool, ns)) <= 1
        /\ \A j \in StartsOf(tool, ns) :
              /\ FlowsTo(tool, ns) # {}
              /\ server_starts[j].flow = SetMin(FlowsTo(tool, ns))
        /\ (dependencies[tool] /\ FlowsTo(tool, ns) # {})
              => Cardinality(StartsOf(tool, ns)) = 1

\* three flows of two tools to n1, two of them netperf: one netserver and
\* one iperf3 server were started on n1
C1_Witness ==
    /\ pc = "try"
    /\ Cardinality(FlowsTo("netperf", "n1")) = 2
    /\ Cardinality(FlowsTo("iperf3", "n1")) = 1
    /\ Cardinality(FlowsTo("coap", "n1")) = 2
    /\ Cardinality(StartsOf("netperf", "n1")) = 1
    /\ Cardinality(StartsOf("iperf3", "n1")) = 1
    /\ Cardinality(StartsOf("coap", "n1")) = 1

AllKeys == {Key(flows[i]) : i \in DOMAIN flows}

\* the window a defaultdict schedule holds for key, present or not
WindowOf(sched, key) ==
    IF \E i \in DOMAIN sched : sched[i].key = key
    THEN (CHOOSE e \in {sched[i] : i \in DOMAIN sched} : e.key = key).win
    ELSE <<PInf, NInf>>

EntriesOf(sched, key) == {i \in DOMAIN sched : sched[i].key = key}

\* schedule `new` is `old` with the window of the flow's key widened to
\* hold [start, stop] and every other key as it was
Widened(new, old, flow) ==
    /\ Cardinality(EntriesOf(new, Key(flow))) = 1
    /\ WindowOf(new, Key(flow)) =
          <<PyMin(WindowOf(old, Key(flow))[1], Fin(flow.start_t)),
            PyMax(WindowOf(old, Key(flow))[2], Fin(flow.stop_t))>>
    /\ \A k \in AllKeys \ {Key(flow)} :
          /\ Cardinality(EntriesOf(new, k)) = Cardinality(EntriesOf(old, k))
          /\ WindowOf(new, k) = WindowOf(old, k)

\* C2: each contribution of a flow to the ping schedule (every flow) and to
\* the socket-stats schedule (a TCP flow, netperf installed) replaces the
\* window of the flow's key by [min(existing.start, start),
\* max(existing.stop, stop)] and leaves the other keys' windows unchanged
C2_ContributionWidensWindow ==
    [][pc = "flows" =>
        /\ Widened(ping_schedules', ping_schedules, flows[idx])
        /\ (flows[idx].protocol = "TCP" /\ dependencies["netperf"])
              => Widened(ss_schedules', ss_schedules, flows[idx])]_vars

\* the second TCP flow of a key has widened the key's ss window while the
\* window of another key is held unchanged
C2_Witness ==
    /\ pc = "flows" /\ idx = 3
    /\ dependencies["netperf"]
    /\ flows[1] = Flow(KeyN1N0, 1, 3, 1, "TCP")
    /\ flows[2] = Flow(KeyN0N1, 2, 8, 1, "TCP")
    /\ flows[3] = Flow(KeyN0N1, 0, 5, 1, "TCP")
    /\ WindowOf(ss_schedules, KeyN0N1) = <<Fin(2), Fin(8)>>
    /\ WindowOf(ss_schedules, KeyN1N0) = <<Fin(1), Fin(3)>>

StartsOn(S) == {flows[i].start_t : i \in S}
StopsOn(S) == {flows[i].stop_t : i \in S}
Hull(S) == <<Fin(SetMin(StartsOn(S))), Fin(SetMax(StopsOn(S)))>>

\* the executed flows on key, and the TCP ones among them
FlowsOn(key) == {i \in DoneFlows : Key(flows[i]) = key}
TcpFlowsOn(key) == {i \in FlowsOn(key) : flows[i].protocol = "TCP"}

\* C3: whatever the order of the flows, the window of each key is
\* [minimum of the starts, maximum of the stops] of the flows on that key
\* (every list over the pool is an initial state, so every permutation of a
\* list is checked, and all of them end in the same window)
C3_MergeIsOrderIndependent ==
    \A key \in AllKeys :
        /\ FlowsOn(key) # {} => WindowOf(ping_schedules, key) = Hull(FlowsOn(key))
        /\ (dependencies["netperf"] /\ TcpFlowsOn(key) # {})
              => WindowOf(ss_schedules, key) = Hull(TcpFlowsOn(key))

\* [3,10], [0,2], [1,5] merged in this order give [0,10]
C3_Witness ==
    /\ pc = "try"
    /\ dependencies["netperf"]
    /\ flows = <<Flow(KeyN0N1, 3, 10, 1, "TCP"), Flow(KeyN0N1, 0, 2, 1, "TCP"),
                 Flow(KeyN0N1, 1, 5, 1, "TCP")>>
    /\ WindowOf(ss_schedules, KeyN0N1) = <<Fin(0), Fin(10)>>
    /\ WindowOf(ping_schedules, KeyN0N1) = <<Fin(0), Fin(10)>>

\* the runners of `tool` built for key
RunnersFor(tool, key) ==
    {i \in DOMAIN exp_runners[tool] :
        <<exp_runners[tool][i].ns, exp_runners[tool][i].dst_ns,
          exp_runners[tool][i].dst_addr>> = key}

\* the runners of `tool` are one per key of the flows at positions S(key),
\* each from the earliest start for (latest stop - earliest start)
OnePerKey(tool, keys, S(_)) ==
    /\ Len(exp_runners[tool]) = Cardinality(keys)
    /\ \A key \in keys :
          /\ Cardinality(RunnersFor(tool, key)) = 1
          /\ \A i \in RunnersFor(tool, key) :
                /\ exp_runners[tool][i].start = Fin(SetMin(StartsOn(S(key))))
                /\ exp_runners[tool][i].run_time =
                      Fin(SetMax(StopsOn(S(key))) - SetMin(StartsOn(S(key))))

SsSetUp == pc \notin {"flows", "coap_flows", "setup_ss"}
PingSetUp == pc \notin {"flows", "coap_flows", "setup_ss", "setup_tc", "setup_ping"}

\* C4: with ss and netperf installed there is exactly one socket-stats
\* runner per distinct key of the TCP flows, starting at the earliest start
\* of the key's TCP flows and lasting (latest stop - earliest start)
C4_OneSsRunnerPerKey ==
    (SsSetUp /\ dependencies["ss"] /\ dependencies["netperf"])
        => OnePerKey("ss", {k \in AllKeys : TcpFlowsOn(k) # {}}, TcpFlowsOn)

\* TCP flows [0,5], [2,8], [1,3] on one key: one ss runner over [0,8]
C4_Witness ==
    /\ pc = "try"
    /\ dependencies["ss"] /\ dependencies["netperf"]
    /\ flows = <<Flow(KeyN0N1, 0, 5, 1, "TCP"), Flow(KeyN0N1, 2, 8, 1, "TCP"),
                 Flow(KeyN0N1, 1, 3, 1, "TCP")>>
    /\ Len(exp_runners["ss"]) = 1
    /\ exp_runners["ss"][1].start = Fin(0)
    /\ exp_runners["ss"][1].run_time = Fin(8)

\* C5: with ping installed there is exactly one ping runner per distinct key
\* of the flows (TCP and UDP), starting at the earliest start of the key's
\* flows and lasting until their latest stop
C5_OnePingRunnerPerKey ==
    (PingSetUp /\ dependencies["ping"])
        => OnePerKey("ping", {k \in AllKeys : FlowsOn(k) # {}}, FlowsOn)

\* a TCP and a UDP flow share a key, a third flow has another key: two ping
\* runners, the shared one over [1,8]
C5_Witness ==
    /\ pc = "try"
    /\ dependencies["ping"]
    /\ flows = <<Flow(KeyN0N1, 2, 8, 1, "TCP"), Flow(KeyN1N0, 0, 5, 1, "TCP"),
                 Flow(KeyN0N1, 1, 3, 1, "UDP")>>
    /\ Len(exp_runners["ping"]) = 2
    /\ exp_runners["ping"][1].start = Fin(1)
    /\ exp_runners["ping"][1].run_time = Fin(7)

-----------------------------------------------------------------------------
(* Properties of the three phases and of the clean-up.                     *)

Begun(p) == \E i \in DOMAIN workers[p] : workers[p][i].status # "new"
AllJoined(p) == \A i \in DOMAIN workers[p] :
                    workers[p][i].joined /\ workers[p][i].status = "exited"

\* C6: no parse process is started before every process of phase 1 has
\* ended and been joined, and no plot process is started before every parse
\* process has ended and been joined
C6_PhaseBarrier ==
    /\ Begun(2) => AllJoined(1)
    /\ Begun(3) => AllJoined(1) /\ AllJoined(2)

\* a plot process runs after a generation phase and a parse phase that both
\* had processes
C6_Witness ==
    /\ Begun(3)
    /\ Len(workers[1]) > 1 /\ Len(workers[2]) > 1
    /\ AllJoined(1) /\ AllJoined(2)

Returned == pc \in {"returned", "raised"}

\* C7: run_experiment is left only after exactly one cleanup() call, on
\* every exit path; cleanup() is not called before; a KeyboardInterrupt
\* raised in the try block is caught (run_experiment returns), any other
\* exception propagates after the cleanup
C7_CleanupOnEveryExit ==
    /\ Returned => cleanup_calls = 1 /\ killed = Namespaces
    /\ ~Returned => cleanup_calls = 0
    /\ exc = "KeyboardInterrupt" => pc = "returned"
    /\ exc = "Exception" => pc = "raised"

\* an interrupt while the parsers are being joined: cleaned up and returned
C7_Witness ==
    /\ exc = "KeyboardInterrupt" /\ exc_at = "join2"
    /\ pc = "returned"
    /\ cleanup_calls = 1

\* C8: after cleanup() the Result Store of every tool category is empty
C8_CleanupClearsAllStores ==
    cleanup_calls > 0 => \A t \in ToolSet : results[t] = {}

InterruptedIn(phases) ==
    exc = "KeyboardInterrupt" /\ PhaseOf(exc_at) \in phases

\* C9 as claimed: when run_experiment returns after an interrupt during
\* phase 1, every registered namespace has been deleted
C9_NamespacesDeletedAtReturn ==
    (pc = "returned" /\ InterruptedIn({1})) => kernel_ns \cap Namespaces = {}

\* C9 as amended: the cleanup reached after an interrupt during phase 1
\* kills the processes of every registered namespace and deletes none; the
\* namespaces are all there while the process lives and are deleted by
\* delete_namespaces when the process exits
C9_NamespacesDeletedAtExit ==
    (pc = "returned" /\ InterruptedIn({1})) =>
        /\ killed = Namespaces
        /\ ~exited => kernel_ns = Namespaces
        /\ exited => kernel_ns \cap Namespaces = {}

\* run_experiment has returned after an interrupt while the flow workers
\* were being joined; the process has not exited and the namespaces exist
C9_Witness ==
    /\ pc = "returned" /\ exc = "KeyboardInterrupt" /\ exc_at = "join1"
    /\ ~exited
    /\ killed = Namespaces
    /\ kernel_ns = Namespaces

\* C10: after an interrupt during phase 1 or phase 2 no JSON document of
\* any tool category has been written
C10_NoJsonAfterEarlyInterrupt ==
    InterruptedIn({1, 2}) => \A t \in ToolSet : json_files[t] = <<>>

\* interrupted while the parsers were being joined, one of them having
\* already ended: nothing was written
C10_Witness ==
    /\ exc = "KeyboardInterrupt" /\ exc_at = "join2"
    /\ \E i \in DOMAIN workers[2] :
          workers[2][i].status = "exited" /\ workers[2][i].exitcode = 0
    /\ \A t \in ToolSet : json_files[t] = <<>>

Logged(msg) == \E i \in DOMAIN log : log[i] = msg
ForcefullyStopped ==
    "Experiment forcefully stopped. The results obtained maybe incomplete!"

\* C11: once a KeyboardInterrupt has been raised at any statement of the try
\* block (any of the three phases, or between them), the "forcefully
\* stopped ... maybe incomplete" warning has been logged exactly once,
\* "Experiment complete!" is not in the log of the run, and run_experiment
\* has returned instead of propagating the interrupt; a run that was not
\* interrupted never logs the warning, and a run that logged "Experiment
\* complete!" raised nothing
C11_InterruptedIsIncomplete ==
    /\ exc = "KeyboardInterrupt" =>
          /\ Cardinality({i \in DOMAIN log : log[i] = ForcefullyStopped}) = 1
          /\ ~Logged("Experiment complete!")
          /\ pc = "returned"
    /\ exc # "KeyboardInterrupt" => ~Logged(ForcefullyStopped)
    /\ Logged("Experiment complete!") => exc = "none" /\ pc = "returned"

\* interrupted while the plotters were being joined, after the JSON dump:
\* the warning is the last message and run_experiment has returned
C11_Witness ==
    /\ exc = "KeyboardInterrupt" /\ exc_at = "join3"
    /\ pc = "returned"
    /\ Logged("Plotting results...")
    /\ log[Len(log)] = ForcefullyStopped

-----------------------------------------------------------------------------
(* Properties of the scheduling when tools are missing.                    *)

\* the runners of category Y are those run_experiment builds for the same
\* experiment when tool X is installed as well
SameAsIfInstalled(X, Y) ==
    \E f \in Orders(ss_filters) :
        exp_runners[Y] = RunnersIf([dependencies EXCEPT ![X] = TRUE], f)[Y]

MaxStop == Fin(SetMax(StopsOn(DOMAIN flows)))
ProgressBars == {i \in DOMAIN workers[1] : workers[1][i].kind = "progress_bar"}

\* C13: once the loop over the flows has ended, exp_end_t is the maximum of
\* the flows' stop times, whatever their order (during the loop it is the
\* maximum over the flows seen so far); it is the duration of every tc
\* runner and the argument of the progress-bar process
C13_ExperimentStopTime ==
    /\ DoneFlows # {} => exp_end_t = Fin(SetMax(StopsOn(DoneFlows)))
    /\ flows # <<>> =>
          /\ \A i \in DOMAIN exp_runners["tc"] :
                exp_runners["tc"][i].run_time = MaxStop
          /\ \A i \in ProgressBars : workers[1][i].args = <<MaxStop>>

\* the flow that stops last (at 8) comes first: the tc runner and the
\* progress bar both get 8
C13_Witness ==
    /\ flows = <<Flow(KeyN0N1, 2, 8, 1, "TCP"), Flow(KeyN0N1, 0, 5, 1, "UDP"),
                 Flow(KeyN1N0, 1, 3, 1, "TCP")>>
    /\ exp_end_t = Fin(8)
    /\ Len(exp_runners["tc"]) = 1
    /\ exp_runners["tc"][1].run_time = Fin(8)
    /\ \E i \in ProgressBars : workers[1][i].args = <<Fin(8)>>

\* the control-port exclusions of the tools that have a flow declared
DeclaredFilters ==
    {NetperfFilter : i \in {j \in DOMAIN flows : flows[j].protocol = "TCP"}}
    \cup {Iperf3Filter : i \in {j \in DOMAIN flows : flows[j].protocol = "UDP"}}

\* C14: the filter of every ss runner joins the control-port exclusion of
\* netperf (12865) if a TCP flow was declared and that of iperf3 (5201) if a
\* UDP flow was declared, each once, however many flows there are and
\* whatever their order
C14_SsFilterExcludesControlPorts ==
    \A i \in DOMAIN exp_runners["ss"] :
        LET f == exp_runners["ss"][i].filter IN
        /\ {f[j] : j \in DOMAIN f} = DeclaredFilters
        /\ Len(f) = Cardinality(DeclaredFilters)

\* two TCP flows and a UDP flow on two keys: both ss runners carry the two
\* exclusions, once each
C14_Witness ==
    /\ Cardinality({i \in DOMAIN flows : flows[i].protocol = "TCP"}) = 2
    /\ Cardinality({i \in DOMAIN flows : flows[i].protocol = "UDP"}) = 1
    /\ Len(exp_runners["ss"]) = 2
    /\ \A i \in DOMAIN exp_runners["ss"] :
          /\ Len(exp_runners["ss"][i].filter) = 2
          /\ \E j, k \in 1..2 : /\ exp_runners["ss"][i].filter[j] = NetperfFilter
                                 /\ exp_runners["ss"][i].filter[k] = Iperf3Filter

-----------------------------------------------------------------------------
(* Properties of the tear-down.                                            *)

\* C15: every call of delete_namespaces (by the script or by the atexit
\* finalizer) raises nothing and leaves no registered namespace in the
\* kernel and the Topology Map as it was, also when a namespace had been
\* removed before; a call that follows another one with no namespace
\* created in between changes nothing, so that any number of calls in a
\* row leaves the state one call leaves
C15_DeleteNamespacesIdempotent ==
    [][delete_row' > delete_row =>
          /\ err' = NoError
          /\ kernel_ns' \cap Namespaces = {}
          /\ topology_map' = topology_map
          /\ delete_row > 0 => kernel_ns' = kernel_ns]_vars

\* tearDown has called delete_namespaces on three registered namespaces,
\* the script has called it again and the atexit finalizer a third time
C15_Witness ==
    /\ exited
    /\ delete_row = 3
    /\ Cardinality(Namespaces) = 3
    /\ kernel_ns = {}
    /\ err = NoError

\* C16: once the process has exited, on any of its exit paths (normal
\* completion, an exception that left run_experiment, an interrupt during
\* the generation phase or later), the finalizer has run and no namespace
\* is left in the kernel; the Topology Map still lists them all
C16_NoNamespaceLeftAfterExit ==
    exited =>
        /\ kernel_ns = {}
        /\ Namespaces = {"n0", "n1", "r"}
        /\ pc \in {"returned", "raised"}

\* the process has exited after an interrupt that arrived while the flow
\* workers were being started: no namespace is left
C16_Witness ==
    /\ exited
    /\ exc = "KeyboardInterrupt" /\ exc_at = "start1"
    /\ kernel_ns = {}

-----------------------------------------------------------------------------
(* Properties of the Network scopes.                                       *)

\* C17: Network.current_network is None or one of the constructed
\* Networks, and None outside every scope; entering a scope makes that
\* Network the target; leaving a scope resets the target to None, at the
\* end of the block and when an exception leaves it, and the exception
\* goes on propagating
C17_NetworkScope ==
    /\ [](/\ current_network \in {None} \cup DOMAIN topology_map.networks
          /\ scopes = <<>> => current_network = None)
    /\ [][/\ Len(scopes') > Len(scopes) =>
                current_network' = scopes'[Len(scopes')]
          /\ Len(scopes') < Len(scopes) =>
                current_network' = None /\ err' = err]_vars

\* an exception raised inside two nested scopes has left both of them: the
\* target is None and the exception is still propagating
C17_Witness ==
    /\ Len(topology_map.networks) = 2
    /\ scopes = <<>>
    /\ err = Exception
    /\ current_network = None
    /\ ~exited

-----------------------------------------------------------------------------
(* Properties of the names of interfaces and of the links.                 *)

Interfaces == topology_map.interfaces

\* C18: every identifier (of a registered namespace or interface, of a
\* kernel interface) has at most 15 characters; Interface(name) succeeds
\* for a name of at most 15 characters, "namewith15chars" among them, and
\* for a longer name it raises an error whose message quotes the name and
\* the limit of 15 while the Topology Map and the kernel stay as they were
C18_NameLimit ==
    /\ [](/\ \A i \in DOMAIN Interfaces : Len(Interfaces[i].id) <= 15
          /\ \A ns \in Namespaces : Len(ns) <= 15
          /\ \A name \in kernel_if : Len(name) <= 15)
    /\ [][\A name \in InterfaceNames :
            InterfaceInit(name) =>
                IF Len(name) <= 15
                THEN /\ err' = NoError
                     /\ Len(Interfaces') = Len(Interfaces) + 1
                     /\ Interfaces'[Len(Interfaces')].id = name
                ELSE /\ err'.type = "ValueError"
                     /\ err'.msg = "Device name " \o name \o " is too long. "
                            \o "Device names should not exceed 15 characters"
                     /\ UNCHANGED <<topology_map, kernel_if, kernel_ns>>]_vars

\* Interface("namewith15chars") has succeeded and Interface(
\* "looonginvalidname") has just been refused: only the first is registered
C18_Witness ==
    /\ err.type = "ValueError" /\ err.name = "looonginvalidname"
    /\ RegisteredNames = {"namewith15chars"}
    /\ Len("namewith15chars") = 15
    /\ kernel_if = {}

\* the interface registered with identifier id
Registered(id) == {i \in DOMAIN Interfaces : Interfaces[i].id = id}

\* C19: the ends of links are registered in pairs, each end in another
\* namespace than its peer and both in the kernel; a connect call either
\* registers both ends or raises and leaves the Topology Map and the
\* kernel as they were, and it raises when the derived name of an end has
\* more than 15 characters
C19_VethPairAllOrNothing ==
    /\ [](\A i \in DOMAIN Interfaces :
            Interfaces[i].pair # "" =>
                /\ \E j \in Registered(Interfaces[i].pair) :
                      /\ Interfaces[j].pair = Interfaces[i].id
                      /\ Interfaces[j].ns # Interfaces[i].ns
                /\ {Interfaces[i].id, Interfaces[i].pair} \subseteq kernel_if)
    /\ [][\A a, b \in LinkNodeNames : \A names \in LinkNames :
            Connect(a, b, names[1], names[2]) =>
                \/ /\ err' = NoError
                   /\ Len(Interfaces') = Len(Interfaces) + 2
                   /\ Interfaces'[Len(Interfaces') - 1].ns = a
                   /\ Interfaces'[Len(Interfaces')].ns = b
                   /\ \A x \in {names[1], names[2]} : Len(x) <= 15
                   /\ Len(a) + Len(b) + 3 <= 15 \/ "" \notin {names[1], names[2]}
                \/ /\ err' # NoError
                   /\ UNCHANGED <<topology_map, kernel_if>>]_vars

\* a link with given names exists and connect(longname0, longname1) has
\* just been refused: neither of its ends is registered or in the kernel
C19_Witness ==
    /\ err.name = "longname0-longname1-0"
    /\ RegisteredNames = {"eth4", "eth5"}
    /\ kernel_if = {"eth4", "eth5"}

\* the links there are between a and b: the ends in a whose peer is in b
LinksBetween(a, b) ==
    {i \in DOMAIN Interfaces :
        /\ Interfaces[i].ns = a
        /\ \E j \in Registered(Interfaces[i].pair) : Interfaces[j].ns = b}

\* C20: a connect between a and b that finds k links between them names
\* the ends it is given no name for "a-b-k" and "b-a-k" and uses the names
\* it is given as they are; when a derived name has more than 15
\* characters connect raises an error that quotes the derived name
C20_LinkNames ==
    [][\A a, b \in LinkNodeNames : \A names \in LinkNames :
        Connect(a, b, names[1], names[2]) =>
            LET k == Cardinality(LinksBetween(a, b))
                name1 == IF names[1] = "" THEN a \o "-" \o b \o "-" \o ToString(k)
                         ELSE names[1]
                name2 == IF names[2] = "" THEN b \o "-" \o a \o "-" \o ToString(k)
                         ELSE names[2]
                derived == {name1 : x \in {names[1]} \cap {""}}
                           \cup {name2 : x \in {names[2]} \cap {""}}
                last == Len(Interfaces')
            IN IF \E n \in derived : Len(n) > 15
               THEN /\ err'.type = "ValueError"
                    /\ err'.name \in derived
                    /\ err'.msg = "Auto-generated device name " \o err'.name
                          \o " is too long. The length of name should not "
                          \o "exceed 15 characters."
               ELSE err' = NoError =>
                        /\ Interfaces'[last - 1].name = name1
                        /\ Interfaces'[last].name = name2]_vars

\* node0 and node1 were connected twice without names
C20_Witness ==
    /\ Len(Interfaces) = 4
    /\ Interfaces[1].name = "node0-node1-0" /\ Interfaces[2].name = "node1-node0-0"
    /\ Interfaces[3].name = "node0-node1-1" /\ Interfaces[4].name = "node1-node0-1"
    /\ Interfaces[3].pair = "node1-node0-1"

-----------------------------------------------------------------------------
(* Properties of link shaping.                                             *)

\* C21: set_attributes on an interface whose shaping interface's name,
\* "ifb-" followed by the interface's name, has more than 15 characters
\* raises the error that quotes the name of the shaping interface, not the
\* name of the interface, also when the interface's name is within the
\* limit, and registers nothing; otherwise it succeeds
C21_IfbNameTooLong ==
    [][\A i \in 1..(2 * MaxLinks) :
        SetAttributes(i) =>
            LET name == Interfaces[i].name
                ifb == "ifb-" \o name
            IN IF Len(ifb) > 15
               THEN /\ err'.type = "ValueError"
                    /\ err'.name = ifb /\ err'.name # name
                    /\ err'.msg = "Device name " \o ifb \o " is too long. "
                          \o "Device names should not exceed 15 characters"
                    /\ UNCHANGED <<topology_map, kernel_if>>
               ELSE /\ err' = NoError
                    /\ ifb \in RegisteredNames']_vars

\* set_attributes on node0-node1-0, a name within the limit, was refused
\* because of ifb-node0-node1-0
C21_Witness ==
    /\ err.name = "ifb-node0-node1-0"
    /\ err.msg = "Device name ifb-node0-node1-0 is too long. "
                 \o "Device names should not exceed 15 characters"
    /\ "node0-node1-0" \in RegisteredNames
    /\ Len("node0-node1-0") <= 15
    /\ "ifb-node0-node1-0" \notin RegisteredNames \cup kernel_if

-----------------------------------------------------------------------------
(* Properties of the addresses of an interface.                            *)

\* the elements of a sequence, and where an element is in it
Elements(seq) == {seq[k] : k \in DOMAIN seq}
Pos(seq, x) == CHOOSE k \in DOMAIN seq : seq[k] = x
\* sub has no element twice, its elements are the elements of seq that are
\* in keep, and they are in the order they have in seq
SubSequenceOf(sub, seq, keep) ==
    /\ Elements(sub) = Elements(seq) \cap keep
    /\ Len(sub) = Cardinality(Elements(sub))
    /\ \A k, l \in DOMAIN sub :
          k < l => Pos(seq, sub[k]) < Pos(seq, sub[l])

\* C22: del_address never raises; for each address it is given that is
\* not assigned it logs one warning that names the address, and it removes
\* the addresses it is given that are assigned: what is left is left in
\* the order it was in, nothing is left when all the assigned addresses
\* are given, and the list is as it was when none of them is assigned
C22_DelAddress ==
    [][\A dels \in AddressLists :
        DelAddress(2, dels) =>
            LET old == AddressesOf(2)
                new == AddressesOf(2)'
                missing == SelectSeq(dels, LAMBDA a : a \notin Elements(old))
            IN /\ err' = NoError
               /\ SubSequenceOf(new, old,
                                InterfaceAddresses \ Elements(dels))
               /\ Elements(dels) \cap Elements(old) = {} => new = old
               /\ Elements(old) \subseteq Elements(dels) => new = <<>>
               /\ Len(log') = Len(log) + Len(missing)
               /\ \A k \in DOMAIN missing :
                     log'[Len(log) + k] =
                         "Cannot delete an address that is not assigned. ("
                         \o missing[k] \o ")"]_vars

\* 10.1.1.2/24 was deleted from an interface that has two other addresses
\* and not that one: the warning is logged and the two are still there
C22_Witness ==
    /\ 2 \in DOMAIN Interfaces
    /\ AddressesOf(2) = <<"10.1.1.3/24", "2001:1:1:1443::412/122">>
    /\ log = <<"Cannot delete an address that is not assigned. (10.1.1.2/24)">>
    /\ err = NoError

\* C23: the addresses of an interface are in the order they were assigned
\* in: get_address of both families returns them all in that order, of
\* one family those of that family in the order they have among them all,
\* and of no family it raises ValueError and leaves the addresses alone
C23_GetAddress ==
    /\ [](2 \in DOMAIN Interfaces =>
            LET all == AddressesOf(2) IN
            /\ get_address(all, TRUE, TRUE) = [err |-> NoError, value |-> all]
            /\ get_address(all, TRUE, FALSE).err = NoError
            /\ SubSequenceOf(get_address(all, TRUE, FALSE).value, all,
                             InterfaceAddresses \ Ipv6Addresses)
            /\ get_address(all, FALSE, TRUE).err = NoError
            /\ SubSequenceOf(get_address(all, FALSE, TRUE).value, all,
                             Ipv6Addresses)
            /\ get_address(all, FALSE, FALSE).err.type = "ValueError")
    /\ [][/\ \A new \in AddressLists :
              /\ AddAddress(2, new) => AddressesOf(2)' = AddressesOf(2) \o new
              /\ SetAddress(2, new) => AddressesOf(2)' = new
          /\ \A ipv4, ipv6 \in BOOLEAN :
                GetAddress(2, ipv4, ipv6) =>
                    /\ UNCHANGED topology_map
                    /\ IF ipv4 \/ ipv6 THEN err' = NoError
                       ELSE /\ err'.type = "ValueError"
                            /\ err'.msg =
                                 "Either ipv4 or ipv6 argument must be True"]_vars

\* an interface has an IPv6, an IPv4 and an IPv6 address, in this order,
\* and get_address(False, False) has just raised
C23_Witness ==
    /\ 2 \in DOMAIN Interfaces
    /\ AddressesOf(2) = <<"2001:1:1:1443::412/122", "10.1.1.2/24",
                          "2001:1:1:1443::413/122">>
    /\ get_address(AddressesOf(2), FALSE, TRUE).value =
           <<"2001:1:1:1443::412/122", "2001:1:1:1443::413/122">>
    /\ err.msg = "Either ipv4 or ipv6 argument must be True"

-----------------------------------------------------------------------------
(* Properties of the worker processes.                                     *)

\* the processes of phase p made for method kind of runner i of a tool
ProcessesOf(p, kind, tool, i) ==
    {w \in DOMAIN workers[p] :
        /\ workers[p][w].kind = kind
        /\ workers[p][w].tool = tool
        /\ workers[p][w].i = i}
Rank(status) ==
    CASE status = "new" -> 0 [] status = "started" -> 1 [] status = "exited" -> 2
Uninterrupted == pc = "returned" /\ exc = "none"

\* C24: a runner never has more than one run process and one parse
\* process; its parse process is started only when its run process has
\* ended; a process never goes back (new, started, exited) and no process
\* of phase 1 is started once phase 2 has processes; when run_experiment
\* returns without an exception every runner has exactly one run process
\* in phase 1 and one parse process in phase 2 and both have run and ended
C24_RunnerLifecycle ==
    /\ [](\A t \in ToolSet : \A i \in DOMAIN exp_runners[t] :
            LET runs == ProcessesOf(1, "run", t, i)
                parses == ProcessesOf(2, "parse", t, i)
            IN /\ Cardinality(runs) <= 1 /\ Cardinality(parses) <= 1
               /\ ProcessesOf(2, "run", t, i) = {}
               /\ ProcessesOf(1, "parse", t, i) = {}
               /\ \A q \in parses :
                     workers[2][q].status # "new" =>
                         /\ runs # {}
                         /\ \A r \in runs : workers[1][r].status = "exited"
               /\ Uninterrupted =>
                     /\ Cardinality(runs) = 1 /\ Cardinality(parses) = 1
                     /\ \A r \in runs : workers[1][r].status = "exited"
                     /\ \A q \in parses : workers[2][q].status = "exited")
    /\ [][\A p \in 1..2 : \A w \in DOMAIN workers[p] \cap DOMAIN workers'[p] :
            /\ Rank(workers'[p][w].status) >= Rank(workers[p][w].status)
            /\ p = 1 /\ workers'[p][w].status # workers[p][w].status
                  => workers[2] = <<>>]_vars

\* an experiment with runners of four tools has returned: their seven
\* processes of each phase have run
C24_Witness ==
    /\ Uninterrupted
    /\ Len(exp_runners["tc"]) = 1 /\ Len(exp_runners["netperf"]) = 2
    /\ Len(workers[2]) >= 5
    /\ AllJoined(1) /\ AllJoined(2)

ProgressBarsOf(p) ==
    {w \in DOMAIN workers[p] : workers[p][w].kind = "progress_bar"}

\* C25: in phase 1 no process is joined before every process of the phase
\* has been started, run_workers returns only when every one of them has
\* ended, and the progress bar is among them, once, exactly when
\* show_progress_bar is on; the others are the run processes of the runners
C25_StartedTogetherJoinedTogether ==
    /\ (\E w \in DOMAIN workers[1] : workers[1][w].joined)
          => \A w \in DOMAIN workers[1] : workers[1][w].status # "new"
    /\ pc \in {"parse", "start2", "join2", "dump", "plot", "start3", "join3",
               "complete"} \/ Uninterrupted
          => AllJoined(1)
    /\ pc \in {"start1", "join1"} =>
          /\ Cardinality(ProgressBarsOf(1)) =
                 IF config.show_progress_bar THEN 1 ELSE 0
          /\ \A t \in ToolSet : \A i \in DOMAIN exp_runners[t] :
                 Cardinality(ProcessesOf(1, "run", t, i)) = 1
          /\ Len(workers[1]) = Cardinality(ProgressBarsOf(1))
                 + Len(exp_runners["netperf"]) + Len(exp_runners["ss"])
                 + Len(exp_runners["tc"]) + Len(exp_runners["iperf3"])
                 + Len(exp_runners["ping"]) + Len(exp_runners["coap"])

\* the first process of phase 1 is being joined while others, the progress
\* bar among them, still run
C25_Witness ==
    /\ pc = "join1" /\ idx = 2
    /\ workers[1][1].joined
    /\ ProgressBarsOf(1) # {}
    /\ \E w \in DOMAIN workers[1] : workers[1][w].status = "started"
    /\ Len(workers[1]) >= 4

PlotsOf(tool) ==
    {w \in DOMAIN workers[3] :
        workers[3][w].kind = "plot" /\ workers[3][w].tool = tool}
\* run_workers of phase 3 has been entered, or phase 3 is over
PlotPhaseEntered ==
    \/ pc \in {"start3", "join3"}
    \/ pc = "complete" /\ config.plot_results
\* there are plot processes only when plot_results is on, and then one
\* plot process for each of the tools
OnePlotProcessFor(tools) ==
    /\ workers[3] # <<>> => config.plot_results
    /\ PlotPhaseEntered =>
          /\ config.plot_results
          /\ \A t \in tools : Cardinality(PlotsOf(t)) = 1

\* C26 as stated: plot processes only when plot_results is on, and then
\* one for each of the six tool categories, CoAP among them
C26_OnePlotProcessPerCategory == OnePlotProcessFor(ToolSet)

\* C26, amended: plot processes only when plot_results is on, and then
\* one for each of ss, netperf, iperf3, tc and ping, which are all the
\* processes of phase 3: there is no plot process for the CoAP category
C26_OnePlotProcessPerPlottedCategory ==
    /\ OnePlotProcessFor(ToolSet \ {"coap"})
    /\ PlotsOf("coap") = {}
    /\ PlotPhaseEntered => Len(workers[3]) = 5

\* the plot phase of the experiment with CoAP flows
C26_Witness ==
    /\ pc = "join3" /\ config.plot_results
    /\ Len(exp_runners["coap"]) = 2
    /\ results["coap"] # {}
    /\ Len(workers[3]) = 5

-----------------------------------------------------------------------------
(* Properties of the persisted output.                                     *)

\* C27: no tool category has its JSON document written twice; a document
\* is written only when every parse process has been joined, no plot
\* process exists yet and cleanup() has not run, and it holds what the
\* Result Store holds then; the plot phase begins, and an experiment
\* completes, only with the documents of all six categories written
C27_JsonWrittenOnce ==
    /\ [](/\ \A t \in ToolSet : Len(json_files[t]) <= 1
          /\ workers[3] # <<>> \/ Uninterrupted =>
                \A t \in ToolSet : Len(json_files[t]) = 1)
    /\ [][json_files' # json_files =>
            /\ AllJoined(1) /\ AllJoined(2)
            /\ workers[3] = <<>> /\ workers'[3] = <<>>
            /\ cleanup_calls = 0 /\ cleanup_calls' = 0
            /\ \E t \in ToolSet :
                  json_files' = [json_files EXCEPT ![t] = <<results[t]>>]]_vars

\* a completed experiment: six documents, the one of netperf with the
\* records of two runners, and the Result Store of netperf cleared since
C27_Witness ==
    /\ Uninterrupted
    /\ \A t \in ToolSet : Len(json_files[t]) = 1
    /\ Cardinality(json_files["netperf"][1]) = 2
    /\ results["netperf"] = {}
    /\ cleanup_calls = 1

-----------------------------------------------------------------------------
(* Properties of the child processes of the runners.                       *)

Parsers == {i \in DOMAIN procs : procs[i].target # "NetperfRunner.run"}
\* the parsers that have added their result to Result Store t
Added(t) ==
    {i \in Parsers : StoreOf(procs[i]) = t /\ procs[i].pc \in {"unlock", "done"}}
\* where Result Store t holds the result of runner i
EntriesBy(t, i) ==
    {k \in DOMAIN store[t].value : store[t].value[k].stats[1].runner = i}

\* C28: at most one process at a time is between the two halves of
\* add_result on a Result Store, and whatever the interleaving of the
\* parsers, which all add under the namespace n0, the Result Store holds
\* the result of every parser that has added, once, with its records in
\* their order, and nothing else
C28_NoLostAppend ==
    \A t \in DOMAIN store :
        /\ Cardinality({i \in Parsers :
                StoreOf(procs[i]) = t /\ procs[i].pc = "put"}) <= 1
        /\ Len(store[t].value) = Cardinality(Added(t))
        /\ \A i \in Added(t) :
              /\ Cardinality(EntriesBy(t, i)) = 1
              /\ \A k \in EntriesBy(t, i) :
                    /\ store[t].value[k].ns_name = "n0"
                    /\ store[t].value[k].stats =
                          <<[runner |-> i, timestamp |-> 1],
                            [runner |-> i, timestamp |-> 2]>>

\* two netperf parsers have added under n0, the second of them first: the
\* first has appended to what the second had written
C28_Witness ==
    /\ Len(procs) = 2
    /\ \A i \in 1..2 : /\ procs[i].target = "NetperfRunner.parse"
                        /\ procs[i].pc = "done"
    /\ Len(store["netperf"].value) = 2
    /\ store["netperf"].value[1].stats[1].runner = 2
    /\ procs[1].item # <<>>

\* C29: NetperfRunner.run and parse_ss spawn their tool only when the
\* time.sleep of start_time seconds has returned, when start_time is not
\* 0, and without having slept when it is 0
C29_SleepBeforeTool ==
    \A i \in DOMAIN procs :
        /\ procs[i].spawned =>
              /\ procs[i].spawned_after = procs[i].start_time
              /\ procs[i].pc # "sleeping"
        /\ procs[i].start_time = 0 =>
              procs[i].slept = 0 /\ procs[i].pc # "sleeping"
        /\ procs[i].pc = "sleeping" => ~procs[i].spawned

\* netperf was spawned after a sleep of 2 seconds and ss at once
C29_Witness ==
    /\ Len(procs) = 2
    /\ procs[1].target = "NetperfRunner.run" /\ procs[1].start_time = 2
    /\ procs[1].spawned /\ procs[1].slept = 2
    /\ procs[2].target = "parse_ss" /\ procs[2].start_time = 0
    /\ procs[2].spawned /\ procs[2].slept = 0

\* the processes of run() and parse() that ended with an exception
CrashedRunners == CrashedIn(1) \cup CrashedIn(2)

\* C30: when the run or parse process of a runner has crashed, the other
\* processes of its phase are started and joined all the same and the
\* phases that follow run, and run_experiment does not report the
\* experiment as complete as if every process had succeeded
C30_CrashConfinedAndReported ==
    /\ \A p \in 1..2 :
          CrashedIn(p) # {} /\ (Begun(p + 1) \/ Uninterrupted) => AllJoined(p)
    /\ CrashedRunners # {} /\ Uninterrupted =>
          /\ Len(workers[2]) > 0 /\ AllJoined(2)
          /\ \A t \in ToolSet : Len(json_files[t]) = 1
          /\ config.plot_results => AllJoined(3) /\ Len(workers[3]) > 0
          /\ ~Logged("Experiment complete!")

\* the window [start, stop] of the flow
Exactly(flow) == <<Fin(flow.start_t), Fin(flow.stop_t)>>

\* C31: the first flow contributing to a key fixes the window exactly: when
\* the key has no entry in the ping schedule, the ping window after the
\* flow's iteration is [flow.start, flow.stop] (the key is read through the
\* [+inf, -inf] default), and when the key has no entry in the socket-stats
\* schedule and the flow contributes to it (TCP, netperf installed), the
\* socket-stats window is [flow.start, flow.stop] (the first-seen branch)
C31_FirstContributionFixesWindow ==
    [][pc = "flows" =>
        /\ EntriesOf(ping_schedules, Key(flows[idx])) = {}
              => /\ Cardinality(EntriesOf(ping_schedules', Key(flows[idx]))) = 1
                 /\ WindowOf(ping_schedules', Key(flows[idx])) = Exactly(flows[idx])
        /\ (/\ EntriesOf(ss_schedules, Key(flows[idx])) = {}
            /\ flows[idx].protocol = "TCP"
            /\ dependencies["netperf"])
              => /\ Cardinality(EntriesOf(ss_schedules', Key(flows[idx]))) = 1
                 /\ WindowOf(ss_schedules', Key(flows[idx])) = Exactly(flows[idx])]_vars

\* a UDP flow [0,5] came first on the key and fixed its ping window, the TCP
\* flow [2,8] after it is the first to contribute to the key's socket-stats
\* window, which is [2,8] while the ping window has been widened to [0,8]
C31_Witness ==
    /\ pc = "flows" /\ idx = 3
    /\ dependencies["netperf"]
    /\ flows[1] = Flow(KeyN0N1, 0, 5, 1, "UDP")
    /\ flows[2] = Flow(KeyN0N1, 2, 8, 1, "TCP")
    /\ WindowOf(ss_schedules, KeyN0N1) = <<Fin(2), Fin(8)>>
    /\ WindowOf(ping_schedules, KeyN0N1) = <<Fin(0), Fin(8)>>

\* the runners of `tool` appended by the step
NewRunners(tool) ==
    SubSeq(exp_runners'[tool], Len(exp_runners[tool]) + 1, Len(exp_runners'[tool]))

\* the runner starts with the flow and lasts as long as the flow
TimedAs(runner, flow) ==
    /\ runner.ns = flow.src_ns /\ runner.dst_addr = flow.dst_addr
    /\ runner.start = Fin(flow.start_t)
    /\ runner.run_time = Fin(flow.stop_t - flow.start_t)

\* the step keeps the runners of `tool` built so far
KeepsRunners(tool) ==
    SubSeq(exp_runners'[tool], 1, Len(exp_runners[tool])) = exp_runners[tool]

\* C32: with netperf and iperf3 installed, the iteration of a TCP flow with
\* n_flows = N appends exactly N netperf runners, each with start =
\* flow.start and duration = flow.stop - flow.start, appends no iperf3 runner
\* and leaves the flow's key with one socket-stats entry whose window holds
\* [start, stop]; the iteration of a UDP flow appends exactly one iperf3
\* runner that carries N, with the same start and duration, appends no
\* netperf runner and leaves the socket-stats schedule as it was
C32_FlowClassification ==
    [][(pc = "flows" /\ dependencies["netperf"] /\ dependencies["iperf3"]) =>
        /\ KeepsRunners("netperf") /\ KeepsRunners("iperf3")
        /\ flows[idx].protocol = "TCP" =>
              /\ Len(NewRunners("netperf")) = flows[idx].n_flows
              /\ \A i \in DOMAIN NewRunners("netperf") :
                    /\ NewRunners("netperf")[i].tool = "netperf"
                    /\ TimedAs(NewRunners("netperf")[i], flows[idx])
              /\ Len(NewRunners("iperf3")) = 0
              /\ Cardinality(EntriesOf(ss_schedules', Key(flows[idx]))) = 1
              /\ ExtLeq(WindowOf(ss_schedules', Key(flows[idx]))[1],
                        Fin(flows[idx].start_t))
              /\ ExtLeq(Fin(flows[idx].stop_t),
                        WindowOf(ss_schedules', Key(flows[idx]))[2])
        /\ flows[idx].protocol = "UDP" =>
              /\ Len(NewRunners("iperf3")) = 1
              /\ NewRunners("iperf3")[1].tool = "iperf3"
              /\ NewRunners("iperf3")[1].n = flows[idx].n_flows
              /\ TimedAs(NewRunners("iperf3")[1], flows[idx])
              /\ Len(NewRunners("netperf")) = 0
              /\ ss_schedules' = ss_schedules]_vars

\* a TCP flow of two streams over [2,8] and a UDP flow of two streams over
\* [0,5]: two netperf runners from 2 for 6, one iperf3 runner carrying 2
\* from 0 for 5, and a socket-stats window that the UDP flow did not widen
C32_Witness ==
    /\ pc = "try"
    /\ dependencies["netperf"] /\ dependencies["iperf3"]
    /\ flows = <<Flow(KeyN0N1, 2, 8, 2, "TCP"), Flow(KeyN0N1, 0, 5, 2, "UDP")>>
    /\ Len(exp_runners["netperf"]) = 2
    /\ exp_runners["netperf"][2].start = Fin(2)
    /\ exp_runners["netperf"][2].run_time = Fin(6)
    /\ Len(exp_runners["iperf3"]) = 1
    /\ exp_runners["iperf3"][1].n = 2
    /\ exp_runners["iperf3"][1].run_time = Fin(5)
    /\ WindowOf(ss_schedules, KeyN0N1) = <<Fin(2), Fin(8)>>

\* the declared flows of protocol proto
FlowsOf(proto) == {i \in DOMAIN flows : flows[i].protocol = proto}

\* C33: socket-stats runners exist only for TCP traffic: once the ss runners
\* have been set up, an experiment without a TCP flow (all flows UDP, or no
\* flow at all) has no socket-stats runner, and a socket-stats runner is
\* there only when a TCP flow was declared; the ping schedule holds exactly
\* one entry per distinct key of the flows processed so far, TCP and UDP
C33_SsOnlyForTcp ==
    /\ (SsSetUp /\ FlowsOf("TCP") = {}) => Len(exp_runners["ss"]) = 0
    /\ Len(exp_runners["ss"]) > 0 => FlowsOf("TCP") # {}
    /\ Len(ping_schedules) = Cardinality({Key(flows[i]) : i \in DoneFlows})
    /\ \A key \in AllKeys :
          Cardinality(EntriesOf(ping_schedules, key)) =
              IF FlowsOn(key) # {} THEN 1 ELSE 0

\* three UDP flows on two keys with ss installed: no socket-stats runner, two
\* ping entries
C33_Witness ==
    /\ pc = "try"
    /\ dependencies["iperf3"]
    /\ Cardinality(FlowsOf("UDP")) = 3 /\ FlowsOf("TCP") = {}
    /\ {Key(flows[i]) : i \in DOMAIN flows} = {KeyN0N1, KeyN1N0}
    /\ Len(exp_runners["iperf3"]) = 3
    /\ Len(exp_runners["ss"]) = 0
    /\ Len(ping_schedules) = 2
    /\ Len(exp_runners["ping"]) = 2

\* the runner is built with a finite start and a finite duration >= 0
FiniteTiming(runner) ==
    /\ IsFinite(runner.start)
    /\ IsFinite(runner.run_time)
    /\ runner.run_time.v >= 0

TimedTools == {"netperf", "iperf3", "ss", "ping", "tc"}

\* C34: every netperf, iperf3, socket-stats, ping and tc runner is built
\* with a finite start time and a finite, non-negative duration, whatever
\* the experiment declares (every flow of the experiments has start <= stop)
C34_FiniteRunnerTiming ==
    \A tool \in TimedTools :
        \A i \in DOMAIN exp_runners[tool] : FiniteTiming(exp_runners[tool][i])

\* the server-start calls made by the step
NewStarts == {j \in DOMAIN server_starts' : j > Len(server_starts)}

\* every server that the processed flows need has been started
ServersUp ==
    \A tool \in ServerTools, ns \in Namespaces :
        (dependencies[tool] /\ FlowsTo(tool, ns) # {}) => StartsOf(tool, ns) # {}

\* C35: every measurement server is started before any client starts: a
\* server-start call is made during scheduling, when no worker process has
\* been created or started, and before the function that makes it has built
\* a Runner object for its flow; once a worker of phase 1 has been started,
\* the server of every (tool, destination namespace) the flows need is up
C35_ServersBeforeClients ==
    /\ [][NewStarts # {} =>
            /\ pc \in {"flows", "coap_flows"}
            /\ \A p \in 1..3 : workers[p] = <<>> /\ workers'[p] = <<>>
            /\ \A j \in NewStarts : server_starts'[j].runners = 0]_vars
    /\ [](Begun(1) => (pc \notin {"flows", "coap_flows"} /\ ServersUp))

\* the two netperf runners of the TCP flow to n1 run, started after the one
\* netserver on n1
C35_Witness ==
    /\ Len(workers[1]) > 0
    /\ \A i \in DOMAIN workers[1] : workers[1][i].status = "started"
    /\ Len(exp_runners["netperf"]) = 2
    /\ Cardinality(StartsOf("netperf", "n1")) = 1
    /\ \A j \in StartsOf("netperf", "n1") : server_starts[j].runners = 0

\* C36: in-flight child processes are reaped on every return of
\* run_experiment: whenever run_experiment has returned or raised,
\* kill_processes has been invoked for every namespace registered in the
\* Topology Map and the Result Stores have been cleared; an exception other
\* than KeyboardInterrupt raised in a phase runs this cleanup once and then
\* leaves run_experiment as an exception
C36_ReapedOnEveryReturn ==
    /\ [](Returned =>
            /\ Namespaces \subseteq killed
            /\ \A t \in ToolSet : results[t] = {})
    /\ [][(exc = "none" /\ exc' = "Exception") =>
            /\ cleanup_calls' = cleanup_calls + 1
            /\ Namespaces \subseteq killed'
            /\ pc' = "raised"]_vars

\* setup_flow_workers has built the workers of phase 1
FlowWorkersSetUp == pc \notin {"flows", "coap_flows", "setup_ss", "setup_tc",
                               "setup_ping", "try"}

\* C37: each CoAP flow processed so far has created exactly one CoAP runner,
\* for that flow, when aiocoap is installed and none otherwise; as soon as
\* one CoAP flow has been processed the progress display is switched off,
\* and the phase-1 workers of an experiment with at least one CoAP flow hold
\* no progress-display process
C37_CoapScheduling ==
    /\ Len(exp_runners["coap"]) =
          IF dependencies["coap"] THEN Cardinality(DoneCoapFlows) ELSE 0
    /\ \A i \in DOMAIN exp_runners["coap"] :
          /\ exp_runners["coap"][i].tool = "coap"
          /\ exp_runners["coap"][i].ns = coap_flows[i].src_ns
          /\ exp_runners["coap"][i].dst_addr = coap_flows[i].dst_addr
    /\ DoneCoapFlows # {} => ~config.show_progress_bar
    /\ (FlowWorkersSetUp /\ Len(coap_flows) > 0) =>
          \A i \in DOMAIN workers[1] : workers[1][i].kind # "progress_bar"

\* two CoAP flows and a TCP flow with every tool installed: two CoAP runners,
\* and the workers of phase 1 are there without a progress display
C37_Witness ==
    /\ FlowWorkersSetUp
    /\ Len(coap_flows) = 2 /\ Len(flows) = 1
    /\ \A t \in ToolSet : dependencies[t]
    /\ Len(exp_runners["coap"]) = 2
    /\ ~config.show_progress_bar
    /\ Len(workers[1]) > 2
    /\ \A i \in DOMAIN workers[1] : workers[1][i].kind = "run"

\* the engine calls of the step that name namespace ns
VisitsOf(ns) == {i \in DOMAIN engine_log' : engine_log'[i].ns = ns}

\* the step is a call of kill_processes or of delete_namespaces
CleanUpCall == delete_row' > delete_row \/ killed' # killed \/ engine_log' # engine_log

\* the step takes entries out of the Topology Map
Unregisters ==
    \/ Len(topology_map'.namespaces) < Len(topology_map.namespaces)
    \/ Len(topology_map'.interfaces) < Len(topology_map.interfaces)
    \/ Len(topology_map'.networks) < Len(topology_map.networks)

\* C38: kill_processes and delete_namespaces only read the Topology Map:
\* a call makes exactly one engine call for every registered namespace
\* (kill_all_processes, or delete_ns, after which no registered namespace is
\* in the kernel) and none for anything else, and leaves the registered
\* namespaces, interfaces and networks as they were; the only step that takes
\* entries out of the registry is delete_all_mapping, which empties it and
\* touches neither the kernel nor the processes
C38_CleanUpOnlyReadsTopologyMap ==
    /\ [][CleanUpCall =>
            /\ topology_map' = topology_map
            /\ Len(engine_log') = Cardinality(Namespaces)
            /\ \A ns \in Namespaces : Cardinality(VisitsOf(ns)) = 1
            /\ IF delete_row' > delete_row
               THEN /\ \A i \in DOMAIN engine_log' : engine_log'[i].op = "delete_ns"
                    /\ kernel_ns' \cap Namespaces = {}
                    /\ killed' = killed
               ELSE /\ \A i \in DOMAIN engine_log' :
                          engine_log'[i].op = "kill_all_processes"
                    /\ Namespaces \subseteq killed'
                    /\ kernel_ns' = kernel_ns]_vars
    /\ [][Unregisters =>
            /\ topology_map' = EmptyTopologyMap
            /\ delete_row > 0
            /\ UNCHANGED <<kernel_ns, killed, engine_log, delete_row>>]_vars

\* tearDown on two nodes, an interface and a network: the processes of both
\* namespaces were killed, then both namespaces were deleted with one
\* delete_ns each, and the registry still lists everything
C38_Witness ==
    /\ Namespaces = {"n0", "n1"}
    /\ Len(topology_map.interfaces) = 1 /\ Len(topology_map.networks) = 1
    /\ killed = {"n0", "n1"}
    /\ kernel_ns = {}
    /\ delete_row = 1
    /\ Len(engine_log) = 2
    /\ \A i \in DOMAIN engine_log : engine_log[i].op = "delete_ns"

\* C39: nested Network scopes: when the scope of a Network is entered, also
\* inside the scope of another one, it becomes the implicit target, and
\* when a scope exits inside an enclosing scope the implicit target is the
\* enclosing Network again
C39_NestedScopes ==
    [][/\ Len(scopes') > Len(scopes) => current_network' = scopes'[Len(scopes')]
       /\ (Len(scopes') < Len(scopes) /\ scopes' # <<>>)
             => current_network' = scopes'[Len(scopes')]]_vars

-----------------------------------------------------------------------------
(* Properties of the membership of Networks.                               *)

\* the ids of the interfaces attached to some Network
Attached ==
    UNION {{topology_map.networks[n].interface[k] :
                k \in DOMAIN topology_map.networks[n].interface} :
           n \in DOMAIN topology_map.networks}

\* the registered interfaces that are attached to no Network
Orphans == {i \in DOMAIN topology_map.interfaces :
                topology_map.interfaces[i].id \notin Attached}

\* the Network whose interface sequence the step has lengthened, if any
GrownNetworks ==
    {n \in DOMAIN topology_map.networks :
        Len(topology_map'.networks[n].interface) >
            Len(topology_map.networks[n].interface)}

\* constructing a Network registers it with an empty interface sequence
RegistersEmptyNetwork ==
    Len(topology_map'.networks) > Len(topology_map.networks) =>
        /\ Len(topology_map'.networks) = Len(topology_map.networks) + 1
        /\ topology_map'.networks[Len(topology_map'.networks)].interface = <<>>
        /\ topology_map'.orphan_interfaces = topology_map.orphan_interfaces

\* add_interface appends at the end and decrements the count by one
AppendsAndDecrements ==
    \A n \in GrownNetworks :
        /\ SubSeq(topology_map'.networks[n].interface, 1,
                  Len(topology_map.networks[n].interface))
              = topology_map.networks[n].interface
        /\ Len(topology_map'.networks[n].interface) =
              Len(topology_map.networks[n].interface) + 1
        /\ topology_map'.orphan_interfaces = topology_map.orphan_interfaces - 1

\* C40: constructing a Network registers it with an empty interface
\* sequence; each add_interface call appends the interface at the end of
\* the Network's sequence and decrements the orphan-interface count by one;
\* in every state the orphan count is the number of registered interfaces
\* attached to no Network, and it is never negative
C40_OrphanCount ==
    /\ [][RegistersEmptyNetwork /\ AppendsAndDecrements]_vars
    /\ [](/\ topology_map.orphan_interfaces = Cardinality(Orphans)
          /\ topology_map.orphan_interfaces >= 0)
=============================================================================
